---- MODULE Spec2Model ----
(***************************************************************************)
(* Word-search puzzle generator (word_puzzle package).                     *)
(*                                                                         *)
(* The model follows GeneratePuzzleUseCase.execute down to the grid:       *)
(*   execute -> _generate_puzzles -> PuzzleGenerationStrategy.generate     *)
(*           -> _attempt_placement -> WordPlacementService.try_place_word  *)
(*           -> Puzzle.can_place_word / Puzzle.add_placement               *)
(* A run is either a call of execute (entry "execute") or a direct call of *)
(* PuzzleGenerationStrategy.generate on a new Puzzle (entry "generate").   *)
(* Further entries drive the single-file generator ("legacy"), two         *)
(* interleaved iterations ("parallel", "legacy_parallel"), a Puzzle        *)
(* ("puzzle") and a DirectionBalancer ("balancer") directly.               *)
(*                                                                         *)
(* Characters are one-character strings, a word is a sequence of them, the *)
(* empty cell is the empty string as in the source.  random.shuffle is a   *)
(* nondeterministic choice of the order; random.choice in the fill is a    *)
(* draw from a random stream selected by a seed.                           *)
(***************************************************************************)
EXTENDS Integers, Sequences, FiniteSets, TLC

VARIABLES
    request,         \* GeneratePuzzleRequest and the entry point of the run
    uc,              \* position in GeneratePuzzleUseCase.execute
    words,           \* List[Word] loaded by _load_words / Puzzle.words
    puzzles,         \* the list built by _generate_puzzles
    attempt,         \* loop index of _generate_puzzles
    response,        \* GeneratePuzzleResponse (NoResponse until execute returns)
    saved,           \* puzzle_repository.save was called
    puzzle,          \* the Puzzle generate works on: grid and placements
    gen,             \* position in PuzzleGenerationStrategy.generate
    attempts,        \* attempts started in generate (the range(max_attempts) loop)
    words_to_place,  \* the shuffled word order of the current attempt
    word_index,      \* i of the enumerate loop in _attempt_placement
    counts,          \* DirectionBalancer.counts
    result,          \* return value of generate: "True", "False" ("none" while running)
    exception,       \* exception that escaped generate ("none" if none)
    calls,           \* history: number of invocations of generate
    successes,       \* history: number of invocations that returned True
    puzzle_id,       \* identity of the Puzzle object generate works on
    puzzle_ids,      \* identities of the objects in the list puzzles, in order
    presented,       \* puzzles_data built by HTMLPuzzlePresenter.present
    balancer_total_words,  \* DirectionBalancer.total_words
    returned,              \* what a direct call of can_place_word or
                           \* get_priority_directions returned, with its arguments
    parked           \* frame of the suspended iteration when two are interleaved

vars == <<request, uc, words, puzzles, attempt, response, saved, puzzle, gen,
          attempts, words_to_place, word_index, counts, result, exception,
          calls, successes, puzzle_id, puzzle_ids, presented, balancer_total_words,
          returned, parked>>

----------------------------------------------------------------------------
(* Bounds of the model *)

\* max_attempts of PuzzleGenerationStrategy (1000 in main.py), bounded
MaxAttempts == 2
\* largest puzzle_count requested through execute
MaxCount == 2
\* the random streams the fill can draw from are numbered 0..MaxFillSeed
MaxFillSeed == 1
\* placements added to a Puzzle that is driven directly
MaxPlacements == 1
\* largest total_words of a DirectionBalancer that is driven directly, and
\* the largest word index it is asked about
MaxTotalWords == 11
\* largest count per category of a DirectionBalancer that is driven directly
MaxBalancerCount == 3

(* Program constants *)

MIN_GRID_SIZE == 5
MAX_GRID_SIZE == 30
\* _generate_puzzles: max_attempts = count * 10
AttemptsPerPuzzle == 10

----------------------------------------------------------------------------
(* Value objects *)

Range(s) == {s[k] : k \in 1..Len(s)}

ascii_uppercase ==
    <<"A","B","C","D","E","F","G","H","I","J","K","L","M",
      "N","O","P","Q","R","S","T","U","V","W","X","Y","Z">>

ascii_lowercase ==
    <<"a","b","c","d","e","f","g","h","i","j","k","l","m",
      "n","o","p","q","r","s","t","u","v","w","x","y","z">>

AlphabetSize == Len(ascii_uppercase)

\* str.upper on one character
Upper(ch) ==
    IF \E k \in 1..AlphabetSize : ascii_lowercase[k] = ch
    THEN ascii_uppercase[CHOOSE k \in 1..AlphabetSize : ascii_lowercase[k] = ch]
    ELSE ch

\* Word.__post_init__: the value is stored in upper case
Word(value) == [k \in 1..Len(value) |-> Upper(value[k])]

Position(row, col) == [row |-> row, col |-> col]

\* Direction(row_delta, col_delta, name); the name is kept as its
\* underscore-separated parts
Direction(row_delta, col_delta, name) ==
    [row_delta |-> row_delta, col_delta |-> col_delta, name |-> name]

HORIZONTAL_RIGHT    == Direction(0, 1, <<"horizontal", "right">>)
HORIZONTAL_LEFT     == Direction(0, -1, <<"horizontal", "left">>)
VERTICAL_DOWN       == Direction(1, 0, <<"vertical", "down">>)
VERTICAL_UP         == Direction(-1, 0, <<"vertical", "up">>)
DIAGONAL_DOWN_RIGHT == Direction(1, 1, <<"diagonal", "down", "right">>)
DIAGONAL_DOWN_LEFT  == Direction(1, -1, <<"diagonal", "down", "left">>)
DIAGONAL_UP_RIGHT   == Direction(-1, 1, <<"diagonal", "up", "right">>)
DIAGONAL_UP_LEFT    == Direction(-1, -1, <<"diagonal", "up", "left">>)

horizontal == <<HORIZONTAL_RIGHT, HORIZONTAL_LEFT>>
vertical   == <<VERTICAL_DOWN, VERTICAL_UP>>
diagonal   == <<DIAGONAL_DOWN_RIGHT, DIAGONAL_DOWN_LEFT,
                DIAGONAL_UP_RIGHT, DIAGONAL_UP_LEFT>>

\* Direction.is_horizontal / is_vertical / is_diagonal: the category word
\* occurs in the name
is_horizontal(d) == "horizontal" \in Range(d.name)
is_vertical(d)   == "vertical" \in Range(d.name)
is_diagonal(d)   == "diagonal" \in Range(d.name)

----------------------------------------------------------------------------
(* Puzzle and WordPlacement *)

EmptyGrid(grid_size) ==
    [r \in 0..(grid_size - 1) |-> [c \in 0..(grid_size - 1) |-> ""]]

\* Puzzle(grid_size=..., words=...): __post_init__ builds the empty grid
NewPuzzle(grid_size) == [grid |-> EmptyGrid(grid_size), placements |-> <<>>]

\* variant: reset empties the placement list but keeps the grid
Reset_keeps_grid(grid_size) == [grid |-> puzzle.grid, placements |-> <<>>]

\* Puzzle.reset
Reset(grid_size) == [grid |-> EmptyGrid(grid_size), placements |-> <<>>]

is_valid_position(grid_size, position) ==
    /\ 0 <= position.row /\ position.row < grid_size
    /\ 0 <= position.col /\ position.col < grid_size

\* variant: the offsets run from 1 to len(word) instead of 0 to len(word) - 1
CalculatePositions_from_one(word, start, direction) ==
    [k \in 1..Len(word) |->
        Position(start.row + k * direction.row_delta,
                 start.col + k * direction.col_delta)]

\* WordPlacement._calculate_positions
CalculatePositions(word, start, direction) ==
    [k \in 1..Len(word) |->
        Position(start.row + (k - 1) * direction.row_delta,
                 start.col + (k - 1) * direction.col_delta)]

\* WordPlacement(word, position, direction); __post_init__ derives positions
WordPlacement(word, start, direction) ==
    [word |-> word, start_position |-> start, direction |-> direction,
     positions |-> CalculatePositions(word, start, direction)]

\* variant: only the bounds are checked, letters already in the grid are not
can_place_word_ignores_letters(grid, grid_size, word, start, direction) ==
    \A k \in 1..Len(word) :
        is_valid_position(grid_size,
            Position(start.row + (k - 1) * direction.row_delta,
                     start.col + (k - 1) * direction.col_delta))

\* variant: only the start position is checked against the bounds
can_place_word_start_only(grid, grid_size, word, start, direction) ==
    /\ is_valid_position(grid_size, start)
    /\ \A k \in 1..Len(word) :
          LET position == Position(start.row + (k - 1) * direction.row_delta,
                                   start.col + (k - 1) * direction.col_delta)
          IN  is_valid_position(grid_size, position) =>
                 LET existing_char == grid[position.row][position.col]
                 IN  ~(existing_char # "" /\ existing_char # word[k])

\* variant: a cell that already holds a letter is never accepted
can_place_word_empty_only(grid, grid_size, word, start, direction) ==
    \A k \in 1..Len(word) :
        LET position == Position(start.row + (k - 1) * direction.row_delta,
                                 start.col + (k - 1) * direction.col_delta)
        IN  /\ is_valid_position(grid_size, position)
            /\ grid[position.row][position.col] = ""

\* Puzzle.can_place_word, the loop from index i on: the first cell outside
\* the grid or holding another character returns False, the end of the
\* word returns True; examined counts the cells the loop has looked at
RECURSIVE can_place_scan(_, _, _, _, _, _)
can_place_scan(grid, grid_size, word, start, direction, i) ==
    IF i >= Len(word)
    THEN [result |-> TRUE, examined |-> i]
    ELSE LET position == Position(start.row + i * direction.row_delta,
                                  start.col + i * direction.col_delta)
         IN  IF ~is_valid_position(grid_size, position)
             THEN [result |-> FALSE, examined |-> i + 1]
             ELSE LET existing_char == grid[position.row][position.col]
                  IN  IF existing_char # "" /\ existing_char # word[i + 1]
                      THEN [result |-> FALSE, examined |-> i + 1]
                      ELSE can_place_scan(grid, grid_size, word, start,
                                          direction, i + 1)

\* Puzzle.can_place_word
can_place_word(grid, grid_size, word, start, direction) ==
    can_place_scan(grid, grid_size, word, start, direction, 0).result

\* Puzzle.add_placement raises (from set_cell) at the first position of the
\* path that is outside the grid
AddPlacementRaises(grid_size, placement) ==
    \E k \in 1..Len(placement.positions) :
        ~is_valid_position(grid_size, placement.positions[k])

\* variant: the first character of the word is not written
RECURSIVE SetCells_skips_start(_, _, _, _)
SetCells_skips_start(grid, grid_size, placement, k) ==
    IF k > Len(placement.positions) THEN grid
    ELSE LET position == placement.positions[k]
         IN  IF ~is_valid_position(grid_size, position) THEN grid
             ELSE SetCells_skips_start(
                     IF k = 1 THEN grid
                     ELSE [grid EXCEPT ![position.row][position.col] =
                                           placement.word[k]],
                     grid_size, placement, k + 1)

\* the cells add_placement writes before it returns or raises: positions
\* k..len, stopping at the first invalid one
RECURSIVE SetCells(_, _, _, _)
SetCells(grid, grid_size, placement, k) ==
    IF k > Len(placement.positions) THEN grid
    ELSE LET position == placement.positions[k]
         IN  IF ~is_valid_position(grid_size, position) THEN grid
             ELSE SetCells([grid EXCEPT ![position.row][position.col] =
                                            placement.word[k]],
                           grid_size, placement, k + 1)

\* variant: the placement is put at the front of the list
add_placement_prepends(pz, grid_size, placement) ==
    [grid |-> SetCells(pz.grid, grid_size, placement, 1),
     placements |-> IF AddPlacementRaises(grid_size, placement)
                    THEN pz.placements
                    ELSE <<placement>> \o pz.placements]

\* variant: add_placement asks can_place_word itself and leaves the puzzle
\* alone when the answer is False
add_placement_revalidates(pz, grid_size, placement) ==
    IF can_place_word(pz.grid, grid_size, placement.word,
                      placement.start_position, placement.direction)
    THEN [grid |-> SetCells(pz.grid, grid_size, placement, 1),
          placements |-> Append(pz.placements, placement)]
    ELSE pz

\* Puzzle.add_placement: write the characters, then append the placement
\* (the append is not reached when set_cell raised)
add_placement(pz, grid_size, placement) ==
    [grid |-> SetCells(pz.grid, grid_size, placement, 1),
     placements |-> IF AddPlacementRaises(grid_size, placement)
                    THEN pz.placements
                    ELSE Append(pz.placements, placement)]

----------------------------------------------------------------------------
(* DirectionBalancer *)

\* DirectionBalancer.__init__
NewCounts == [HORIZONTAL |-> 0, VERTICAL |-> 0, DIAGONAL |-> 0]

\* variant: a direction that goes down or up is counted as diagonal
increment_vertical_as_diagonal(cnt, direction) ==
    IF is_horizontal(direction)
    THEN [cnt EXCEPT !.HORIZONTAL = @ + 1]
    ELSE [cnt EXCEPT !.DIAGONAL = @ + 1]

\* DirectionBalancer.increment
increment(cnt, direction) ==
    IF is_horizontal(direction)
    THEN [cnt EXCEPT !.HORIZONTAL = @ + 1]
    ELSE IF is_vertical(direction)
         THEN [cnt EXCEPT !.VERTICAL = @ + 1]
         ELSE [cnt EXCEPT !.DIAGONAL = @ + 1]

\* [d for group in groups for d in group]
RECURSIVE Flatten(_)
Flatten(groups) ==
    IF groups = <<>> THEN <<>> ELSE Head(groups) \o Flatten(Tail(groups))

\* variant: a category is preferred while its count is at most the target
get_priority_directions_at_most(cnt, total_words, index) ==
    LET target_per_category == total_words \div 3
    IN  IF cnt.DIAGONAL <= target_per_category
        THEN diagonal \o horizontal \o vertical
        ELSE IF cnt.HORIZONTAL <= target_per_category
             THEN horizontal \o diagonal \o vertical
             ELSE vertical \o diagonal \o horizontal

\* DirectionBalancer.get_priority_directions: one flat list of all the
\* directions, the preferred category first
get_priority_directions(cnt, total_words, index) ==
    LET target_per_category == total_words \div 3
        all_directions == <<horizontal, vertical, diagonal>>
        group_idx == index % Len(all_directions)
        selected == all_directions[group_idx + 1]
        kept == SelectSeq([k \in 1..Len(all_directions) |-> k - 1],
                          LAMBDA i : i # group_idx)
        others == Flatten([k \in 1..Len(kept) |-> all_directions[kept[k] + 1]])
    IN  IF cnt.DIAGONAL < target_per_category
        THEN diagonal \o horizontal \o vertical
        ELSE IF cnt.HORIZONTAL < target_per_category
             THEN horizontal \o diagonal \o vertical
             ELSE IF cnt.VERTICAL < target_per_category
                  THEN vertical \o diagonal \o horizontal
                  ELSE selected \o others

\* variant: the gate asks for half of the words on a diagonal
has_sufficient_diagonal_coverage_half(cnt, total_words) ==
    cnt.DIAGONAL * 10 >= total_words * 5

\* variant: the threshold is not scaled by the number of words
has_sufficient_diagonal_coverage_unscaled(cnt, total_words) ==
    cnt.DIAGONAL * 10 >= 2

\* DirectionBalancer.has_sufficient_diagonal_coverage with the default
\* min_percentage 0.2 = 2/10.  (For total_words <= 1000 the double product
\* total_words * 0.2 compares with an integer count exactly as 2/10 does.)
has_sufficient_diagonal_coverage(cnt, total_words) ==
    cnt.DIAGONAL * 10 >= total_words * 2

----------------------------------------------------------------------------
(* WordPlacementService *)

\* variant: the last row and the last column are left out
get_all_positions_short(grid_size) ==
    {Position(r, c) : r \in 0..(grid_size - 2), c \in 0..(grid_size - 2)}

\* WordPlacementService._get_all_positions
get_all_positions(grid_size) ==
    {Position(r, c) : r \in 0..(grid_size - 1), c \in 0..(grid_size - 1)}

\* try_place_word shuffles the directions and, for each direction in that
\* order, the positions, and commits the first pair that can_place_word
\* accepts.  Every order is a possible shuffle, so the pair it commits can be
\* any pair of a listed direction and a grid position that can be placed.
PlaceablePairs(grid, grid_size, word, directions) ==
    {pair \in Range(directions) \X get_all_positions(grid_size) :
        can_place_word(grid, grid_size, word, pair[2], pair[1])}

\* random.choice(string.ascii_uppercase): draw number k of stream seed
RandomChoice(seed, k) == ascii_uppercase[((seed + k) % AlphabetSize) + 1]

\* WordPlacementService.fill_empty_cells from cell number n on (row-major
\* order, cell n is row n div size, column n mod size); draws counts the
\* letters drawn so far
RECURSIVE FillFrom(_, _, _, _, _)
FillFrom(grid, grid_size, n, draws, seed) ==
    IF n >= grid_size * grid_size THEN grid
    ELSE LET row == n \div grid_size
             col == n % grid_size
         IN  IF grid[row][col] = ""
             THEN FillFrom([grid EXCEPT ![row][col] = RandomChoice(seed, draws)],
                           grid_size, n + 1, draws + 1, seed)
             ELSE FillFrom(grid, grid_size, n + 1, draws, seed)

\* variant: the row loop starts at row 1
fill_empty_cells_from_row_one(grid, grid_size, seed) ==
    FillFrom(grid, grid_size, grid_size, 0, seed)

\* variant: every cell is written, whether it is empty or not
fill_empty_cells_overwrites(grid, grid_size, seed) ==
    [r \in 0..(grid_size - 1) |-> [c \in 0..(grid_size - 1) |->
        RandomChoice(seed, r * grid_size + c)]]

fill_empty_cells(grid, grid_size, seed) == FillFrom(grid, grid_size, 0, 0, seed)

----------------------------------------------------------------------------
(* PuzzleGenerationStrategy helpers *)

\* insert w into a list kept in descending order of length, after the
\* entries of the same length (sorted is stable)
RECURSIVE InsertByLength(_, _)
InsertByLength(sorted, w) ==
    IF sorted = <<>> THEN <<w>>
    ELSE IF Len(Head(sorted)) >= Len(w)
         THEN <<Head(sorted)>> \o InsertByLength(Tail(sorted), w)
         ELSE <<w>> \o sorted

\* sorted(puzzle.words, key=len, reverse=True)
RECURSIVE SortedWords(_)
SortedWords(ws) ==
    IF ws = <<>> THEN <<>>
    ELSE InsertByLength(SortedWords(SubSeq(ws, 1, Len(ws) - 1)), ws[Len(ws)])

\* the results random.shuffle can leave in a copy of ws: every reordering
Shuffles(ws) ==
    {[k \in 1..Len(ws) |-> ws[f[k]]] : f \in Permutations(1..Len(ws))}

----------------------------------------------------------------------------
(* Inputs *)

CAT    == <<"C", "A", "T">>
DOG    == <<"D", "O", "G">>
TAG    == <<"T", "A", "G">>
hello  == <<"h", "e", "l", "l", "o">>
PUZZLE == <<"P", "U", "Z", "Z", "L", "E">>

\* FileWordRepository.DEFAULT_WORDS
DEFAULT_WORDS ==
    << <<"a","d","d","o","b","b","o">>, <<"a","n","g","e","l","o">>,
       <<"g","i","u","s","e","p","p","e">>, <<"c","o","m","e","t","a">>,
       <<"s","t","e","l","l","a">>, <<"m","a","r","i","a">>,
       <<"m","a","g","i">>, <<"b","e","t","l","e","m","m","e">>,
       <<"b","u","e">>, <<"n","a","t","a","l","e">>,
       <<"a","s","i","n","e","l","l","o">>, <<"s","t","a","l","l","a">> >>

\* GeneratePuzzleRequest.word_file is None
NoFile == [given |-> FALSE, lines |-> <<>>]

GeneratePuzzleRequest(entry, grid_size, ws, puzzle_count) ==
    [entry |-> entry, grid_size |-> grid_size, words |-> ws,
     puzzle_count |-> puzzle_count, word_file |-> NoFile]

\* a request that names a word file; lines are the stripped non-empty lines
\* of the file
FileRequest(entry, grid_size, lines, puzzle_count) ==
    [entry |-> entry, grid_size |-> grid_size, words |-> <<>>,
     puzzle_count |-> puzzle_count,
     word_file |-> [given |-> TRUE, lines |-> lines]]

\* calls of GeneratePuzzleUseCase.execute: a request the validator accepts,
\* for every count, and requests that _load_words or the validator reject
ExecuteRequests ==
    {GeneratePuzzleRequest("execute", 5, <<hello>>, n) : n \in 1..MaxCount}
    \cup {GeneratePuzzleRequest("execute", 4, <<CAT>>, 1),
          GeneratePuzzleRequest("execute", 5, <<PUZZLE>>, 1),
          GeneratePuzzleRequest("execute", 5, <<>>, 1),
          GeneratePuzzleRequest("execute", 5, <<CAT, <<>> >>, 1),
          GeneratePuzzleRequest("execute", MAX_GRID_SIZE + 1, <<CAT>>, 1),
          FileRequest("execute", 5, <<>>, 1)}

\* direct calls of PuzzleGenerationStrategy.generate on Puzzle(grid_size, words)
GenerateRequests ==
    {GeneratePuzzleRequest("generate", 5, <<CAT, DOG>>, 1),
     GeneratePuzzleRequest("generate", 5, <<CAT, CAT>>, 1),
     GeneratePuzzleRequest("generate", 5, <<hello>>, 1),
     GeneratePuzzleRequest("generate", 3, <<CAT, TAG>>, 1),
     GeneratePuzzleRequest("generate", 2, <<CAT>>, 1),
     GeneratePuzzleRequest("generate", 1, << <<"A">>, <<"B">> >>, 1),
     GeneratePuzzleRequest("generate", 1, << <<"a">>, <<"A">>, <<"A">> >>, 1),
     GeneratePuzzleRequest("generate", 1, << <<"A">>, <<"B">>, <<"C">> >>, 1)}

Requests == ExecuteRequests \cup GenerateRequests

\* a list of six words, where the diagonal gate asks for two diagonals
SixWords == [k \in 1..6 |-> <<"A">>]

CoverageRequests ==
    GenerateRequests \cup {GeneratePuzzleRequest("generate", 1, SixWords, 1)}

NoResponse == [success |-> FALSE, puzzles |-> <<>>, puzzles_generated |-> 0,
               message |-> "none"]
NoPuzzle   == [grid |-> <<>>, placements |-> <<>>]
\* no iteration is suspended
NoFrame    == [worker |-> 0]
\* no direct call has returned
NoReturn   == [method |-> "none"]

----------------------------------------------------------------------------
(* GeneratePuzzleUseCase *)

\* _load_words (request.word_file, a file read, is not part of the model)
LoadedStrings(req) ==
    IF req.word_file.given THEN req.word_file.lines
    ELSE IF req.words # <<>> THEN req.words ELSE DEFAULT_WORDS

\* Word.__post_init__ raises ValueError on an empty value
LoadWordsRaises(req) == \E k \in 1..Len(LoadedStrings(req)) : LoadedStrings(req)[k] = <<>>

load_words(req) == [k \in 1..Len(LoadedStrings(req)) |-> Word(LoadedStrings(req)[k])]

\* variant: only the lower bound of the grid size is checked
ValidateGridSizeRaises_lower_only(size) == size < MIN_GRID_SIZE

\* PuzzleConfigValidator.validate_grid_size raises
ValidateGridSizeRaises(size) == size < MIN_GRID_SIZE \/ size > MAX_GRID_SIZE

\* PuzzleConfigValidator.validate_words raises
ValidateWordsRaises(ws, grid_size) ==
    \/ Len(ws) = 0
    \/ \E k \in 1..Len(ws) : Len(ws[k]) > grid_size

FailureResponse == [success |-> FALSE, puzzles |-> <<>>, puzzles_generated |-> 0,
                    message |-> "Failed to generate puzzles"]
SuccessResponse(pzs) == [success |-> TRUE, puzzles |-> pzs, puzzles_generated |-> Len(pzs),
                         message |-> "Successfully generated"]

TypeOK ==
    /\ request.entry \in {"execute", "generate", "legacy", "parallel",
                        "legacy_parallel", "puzzle", "balancer"}
    /\ uc \in {"idle", "loop", "generating", "direct", "done", "parallel",
             "puzzle", "balancer"}
    /\ gen \in {"idle", "loop", "placing", "returned"}
    /\ attempt \in Nat /\ attempts \in Nat /\ word_index \in Nat
    /\ calls \in Nat /\ successes \in Nat
    /\ puzzle_id \in Nat /\ balancer_total_words \in Nat
    /\ Len(puzzle_ids) = Len(puzzles)
    /\ saved \in BOOLEAN
    /\ result \in {"none", "True", "False"}
    /\ exception \in {"none", "ValueError"}

InitWith(requests) ==
    /\ request \in requests
    /\ uc = "idle"
    /\ words = <<>>
    /\ puzzles = <<>>
    /\ attempt = 0
    /\ response = NoResponse
    /\ saved = FALSE
    /\ puzzle = NoPuzzle
    /\ gen = "idle"
    /\ attempts = 0
    /\ words_to_place = <<>>
    /\ word_index = 0
    /\ counts = NewCounts
    /\ result = "none"
    /\ exception = "none"
    /\ calls = 0
    /\ successes = 0
    /\ puzzle_id = 0
    /\ puzzle_ids = <<>>
    /\ presented = <<>>
    /\ balancer_total_words = 0
    /\ returned = NoReturn
    /\ parked = NoFrame

Init == InitWith(Requests)

genVars == <<puzzle, puzzle_id, gen, attempts, words_to_place, word_index, counts,
             balancer_total_words, result, exception, calls, successes>>
ucVars == <<uc, words, puzzles, attempt, response, saved>>
\* what the callers of generate hold besides the list of puzzles
callerVars == <<request, uc, words, attempt, response, saved, puzzle_id,
                puzzle_ids, presented, returned, parked>>

\* the list puzzles after the object the generator works on took the state
\* new: an entry of the list that is this very object shows the new state
Stored(new) ==
    [k \in 1..Len(puzzles) |-> IF puzzle_ids[k] = puzzle_id THEN new ELSE puzzles[k]]

\* execute, steps 1 and 2: _load_words and _validate_configuration; an
\* exception of either is caught and answered with the failure response
Execute ==
    /\ uc = "idle"
    /\ request.entry = "execute"
    /\ IF \/ LoadWordsRaises(request)
          \/ ValidateGridSizeRaises(request.grid_size)
          \/ ValidateWordsRaises(load_words(request), request.grid_size)
       THEN /\ response' = FailureResponse
            /\ uc' = "done"
            /\ UNCHANGED words
       ELSE /\ words' = load_words(request)
            /\ uc' = "loop"
            /\ UNCHANGED response
    /\ puzzles' = <<>>
    /\ attempt' = 0
    /\ UNCHANGED <<request, saved, puzzle_ids, presented, returned, parked>>
    /\ UNCHANGED genVars

\* variant: the loop builds one Puzzle before its first iteration and hands
\* the same object to generate every time
StartIteration_same_object ==
    /\ uc = "loop"
    /\ attempt < request.puzzle_count * AttemptsPerPuzzle
    /\ ~(Len(puzzles) >= request.puzzle_count)
    /\ puzzle' = IF calls = 0 THEN NewPuzzle(request.grid_size) ELSE puzzle
    /\ puzzle_id' = 1
    /\ gen' = "loop"
    /\ attempts' = 0
    /\ result' = "none"
    /\ calls' = calls + 1
    /\ uc' = "generating"
    /\ UNCHANGED <<request, words, puzzles, attempt, response, saved,
                   words_to_place, word_index, counts, exception, successes,
                   puzzle_ids, presented, balancer_total_words,
                   returned, parked>>

\* variant: the loop does not break when count puzzles are collected
StartIteration_no_break ==
    /\ uc = "loop"
    /\ attempt < request.puzzle_count * AttemptsPerPuzzle
    /\ puzzle' = NewPuzzle(request.grid_size)
    /\ puzzle_id' = calls + 1
    /\ gen' = "loop"
    /\ attempts' = 0
    /\ result' = "none"
    /\ calls' = calls + 1
    /\ uc' = "generating"
    /\ UNCHANGED <<request, words, puzzles, attempt, response, saved,
                   words_to_place, word_index, counts, exception, successes,
                   puzzle_ids, presented, balancer_total_words, returned, parked>>

\* _generate_puzzles, one iteration that does not break: a new Puzzle is
\* built and generate is called on it
StartIteration ==
    /\ uc = "loop"
    /\ attempt < request.puzzle_count * AttemptsPerPuzzle
    /\ ~(Len(puzzles) >= request.puzzle_count)
    /\ puzzle' = NewPuzzle(request.grid_size)
    /\ puzzle_id' = calls + 1
    /\ gen' = "loop"
    /\ attempts' = 0
    /\ result' = "none"
    /\ calls' = calls + 1
    /\ uc' = "generating"
    /\ UNCHANGED <<request, words, puzzles, attempt, response, saved,
                   words_to_place, word_index, counts, exception, successes,
                   puzzle_ids, presented, balancer_total_words, returned, parked>>

\* _generate_puzzles after generate returned: append on True; an exception
\* of generate leaves execute through its except clause
Collect ==
    /\ uc = "generating"
    /\ gen = "returned"
    /\ IF exception # "none"
       THEN /\ response' = FailureResponse
            /\ uc' = "done"
            /\ UNCHANGED <<puzzles, puzzle_ids, attempt>>
       ELSE /\ puzzles' = IF result = "True" THEN Append(puzzles, puzzle) ELSE puzzles
            /\ puzzle_ids' = IF result = "True" THEN Append(puzzle_ids, puzzle_id)
                                                ELSE puzzle_ids
            /\ attempt' = attempt + 1
            /\ uc' = "loop"
            /\ UNCHANGED response
    /\ gen' = "idle"
    /\ UNCHANGED <<request, words, saved, puzzle, attempts, words_to_place,
                   word_index, counts, result, exception, calls, successes,
                   puzzle_id, presented, balancer_total_words, returned, parked>>

\* variant: the exported pairs are [pos.col, pos.row]
word_positions_col_first(placements) ==
    [w \in {placements[k].word : k \in 1..Len(placements)} |->
        LET last == CHOOSE k \in 1..Len(placements) :
                       /\ placements[k].word = w
                       /\ \A j \in (k + 1)..Len(placements) : placements[j].word # w
            positions == placements[last].positions
        IN  [i \in 1..Len(positions) |-> <<positions[i].col, positions[i].row>>]]

\* HTMLPuzzlePresenter._convert_puzzles_to_data, the dict word_data of one
\* puzzle: str(placement.word) is the key, the value is the list of
\* [pos.row, pos.col]; a later placement of the same word replaces the entry
word_positions(placements) ==
    [w \in {placements[k].word : k \in 1..Len(placements)} |->
        LET last == CHOOSE k \in 1..Len(placements) :
                       /\ placements[k].word = w
                       /\ \A j \in (k + 1)..Len(placements) : placements[j].word # w
            positions == placements[last].positions
        IN  [i \in 1..Len(positions) |-> <<positions[i].row, positions[i].col>>]]

\* HTMLPuzzlePresenter._convert_puzzles_to_data
convert_puzzles_to_data(pzs) ==
    [k \in 1..Len(pzs) |->
        [grid |-> pzs[k].grid, words |-> word_positions(pzs[k].placements)]]

\* the loop of _generate_puzzles is left (break or range exhausted), then
\* _save_puzzles: HTMLPuzzlePresenter.present raises on an empty list, else
\* the repository saves and execute answers success
Finish ==
    /\ uc = "loop"
    /\ \/ attempt >= request.puzzle_count * AttemptsPerPuzzle
       \/ Len(puzzles) >= request.puzzle_count
    /\ IF puzzles = <<>>
       THEN /\ response' = FailureResponse
            /\ UNCHANGED <<saved, presented>>
       ELSE /\ response' = SuccessResponse(puzzles)
            /\ presented' = convert_puzzles_to_data(puzzles)
            /\ saved' = TRUE
    /\ uc' = "done"
    /\ UNCHANGED <<request, words, puzzles, attempt, puzzle_ids, returned, parked>>
    /\ UNCHANGED genVars

\* a direct call generate(Puzzle(grid_size=..., words=[Word(w) ...]))
GenerateCall ==
    /\ uc = "idle"
    /\ request.entry = "generate"
    /\ words' = load_words(request)
    /\ puzzle' = NewPuzzle(request.grid_size)
    /\ puzzle_id' = calls + 1
    /\ gen' = "loop"
    /\ attempts' = 0
    /\ calls' = calls + 1
    /\ uc' = "direct"
    /\ UNCHANGED <<request, puzzles, attempt, response, saved, words_to_place,
                   word_index, counts, result, exception, successes,
                   puzzle_ids, presented, balancer_total_words, returned, parked>>

----------------------------------------------------------------------------
(* PuzzleGenerationStrategy.generate *)

\* one iteration of the range(max_attempts) loop begins: reset, copy of
\* the sorted words, shuffle; _attempt_placement creates its balancer
AttemptStart ==
    /\ gen = "loop"
    /\ attempts < MaxAttempts
    /\ attempts' = attempts + 1
    /\ puzzle' = Reset(request.grid_size)
    /\ words_to_place' \in Shuffles(SortedWords(words))
    /\ counts' = NewCounts
    /\ balancer_total_words' = Len(words_to_place')
    /\ word_index' = 0
    /\ gen' = "placing"
    /\ UNCHANGED <<result, exception, calls, successes>>
    /\ puzzles' = Stored(puzzle')
    /\ UNCHANGED callerVars

\* _attempt_placement, word i: try_place_word commits a placement, the
\* balancer counts the direction of puzzle.placements[-1].  A ValueError of
\* set_cell would leave generate.
PlaceWord ==
    /\ gen = "placing"
    /\ word_index < Len(words_to_place)
    /\ LET word == words_to_place[word_index + 1]
           priority_directions ==
               get_priority_directions(counts, balancer_total_words, word_index)
       IN  \E pair \in PlaceablePairs(puzzle.grid, request.grid_size, word,
                                      priority_directions) :
             LET placement == WordPlacement(word, pair[2], pair[1])
                 placed == add_placement(puzzle, request.grid_size, placement)
             IN  /\ puzzle' = placed
                 /\ IF AddPlacementRaises(request.grid_size, placement)
                    THEN /\ exception' = "ValueError"
                         /\ gen' = "returned"
                         /\ UNCHANGED <<counts, word_index>>
                    ELSE /\ counts' = increment(counts,
                               placed.placements[Len(placed.placements)].direction)
                         /\ word_index' = word_index + 1
                         /\ UNCHANGED <<gen, exception>>
    /\ UNCHANGED <<attempts, words_to_place, result, calls, successes>>
    /\ puzzles' = Stored(puzzle')
    /\ UNCHANGED balancer_total_words
    /\ UNCHANGED callerVars

\* variant: a word that cannot be placed is skipped and the attempt goes on
\* with the next word
PlaceWordFails_skips_word ==
    /\ gen = "placing"
    /\ word_index < Len(words_to_place)
    /\ PlaceablePairs(puzzle.grid, request.grid_size,
                      words_to_place[word_index + 1],
                      get_priority_directions(counts, balancer_total_words,
                                              word_index)) = {}
    /\ word_index' = word_index + 1
    /\ UNCHANGED <<puzzle, gen, attempts, words_to_place, counts, result,
                   exception, calls, successes>>
    /\ UNCHANGED puzzles
    /\ UNCHANGED balancer_total_words
    /\ UNCHANGED callerVars

\* _attempt_placement, word i: try_place_word found no pair and returned
\* False; the attempt ends at once, the grid is left as it is
PlaceWordFails ==
    /\ gen = "placing"
    /\ word_index < Len(words_to_place)
    /\ PlaceablePairs(puzzle.grid, request.grid_size,
                      words_to_place[word_index + 1],
                      get_priority_directions(counts, balancer_total_words,
                                              word_index)) = {}
    /\ gen' = "loop"
    /\ UNCHANGED <<puzzle, attempts, words_to_place, word_index, counts, result,
                   exception, calls, successes>>
    /\ UNCHANGED puzzles
    /\ UNCHANGED balancer_total_words
    /\ UNCHANGED callerVars

\* all words placed and the diagonal gate passed: fill_empty_cells, return True
AttemptAccepted ==
    /\ gen = "placing"
    /\ word_index = Len(words_to_place)
    /\ has_sufficient_diagonal_coverage(counts, balancer_total_words)
    /\ \E seed \in 0..MaxFillSeed :
         puzzle' = [puzzle EXCEPT
                      !.grid = fill_empty_cells(@, request.grid_size, seed)]
    /\ result' = "True"
    /\ successes' = successes + 1
    /\ gen' = "returned"
    /\ UNCHANGED <<attempts, words_to_place, word_index, counts, exception, calls>>
    /\ puzzles' = Stored(puzzle')
    /\ UNCHANGED balancer_total_words
    /\ UNCHANGED callerVars

\* variant: an attempt that placed every word is filled and returned
\* although the diagonal gate failed
AttemptRejected_fills_and_returns ==
    /\ gen = "placing"
    /\ word_index = Len(words_to_place)
    /\ ~has_sufficient_diagonal_coverage(counts, balancer_total_words)
    /\ \E seed \in 0..MaxFillSeed :
         puzzle' = [puzzle EXCEPT
                      !.grid = fill_empty_cells(@, request.grid_size, seed)]
    /\ result' = "True"
    /\ successes' = successes + 1
    /\ gen' = "returned"
    /\ UNCHANGED <<attempts, words_to_place, word_index, counts, exception, calls>>
    /\ puzzles' = Stored(puzzle')
    /\ UNCHANGED balancer_total_words
    /\ UNCHANGED callerVars

\* variant: an attempt rejected by the diagonal gate makes generate return
\* False at once
AttemptRejected_gives_up ==
    /\ gen = "placing"
    /\ word_index = Len(words_to_place)
    /\ ~has_sufficient_diagonal_coverage(counts, balancer_total_words)
    /\ result' = "False"
    /\ gen' = "returned"
    /\ UNCHANGED <<puzzle, attempts, words_to_place, word_index, counts,
                   exception, calls, successes>>
    /\ UNCHANGED puzzles
    /\ UNCHANGED balancer_total_words
    /\ UNCHANGED callerVars

\* all words placed but the diagonal gate failed: next attempt
AttemptRejected ==
    /\ gen = "placing"
    /\ word_index = Len(words_to_place)
    /\ ~has_sufficient_diagonal_coverage(counts, balancer_total_words)
    /\ gen' = "loop"
    /\ UNCHANGED <<puzzle, attempts, words_to_place, word_index, counts, result,
                   exception, calls, successes>>
    /\ UNCHANGED puzzles
    /\ UNCHANGED balancer_total_words
    /\ UNCHANGED callerVars

\* the loop ran max_attempts times: return False
Exhausted ==
    /\ gen = "loop"
    /\ attempts >= MaxAttempts
    /\ result' = "False"
    /\ gen' = "returned"
    /\ UNCHANGED <<puzzle, attempts, words_to_place, word_index, counts,
                   exception, calls, successes>>
    /\ UNCHANGED puzzles
    /\ UNCHANGED balancer_total_words
    /\ UNCHANGED callerVars

Next ==
    \/ Execute
    \/ StartIteration
    \/ Collect
    \/ Finish
    \/ GenerateCall
    \/ AttemptStart
    \/ PlaceWord
    \/ PlaceWordFails
    \/ AttemptAccepted
    \/ AttemptRejected
    \/ Exhausted

Spec == Init /\ [][Next]_vars

\* direct calls of generate only, including the six-word list
NextGenerate ==
    \/ GenerateCall
    \/ AttemptStart
    \/ PlaceWord
    \/ PlaceWordFails
    \/ AttemptAccepted
    \/ AttemptRejected
    \/ Exhausted

\* the direct calls of generate without the two-word lists on the 5x5 grid
TerminationRequests ==
    {req \in GenerateRequests : req.grid_size < 5 \/ Len(req.words) = 1}

\* a direct call of generate runs to its end: generate is sequential code
\* with bounded loops and no blocking call, so a step that can be taken is
\* taken
SpecTermination ==
    InitWith(TerminationRequests) /\ [][NextGenerate]_vars /\ WF_vars(NextGenerate)

SpecCoverage == InitWith(CoverageRequests) /\ [][NextGenerate]_vars

----------------------------------------------------------------------------
(* MultiPuzzleWordSearchGenerator (multi_puzzle_word_search.py), the        *)
(* single-file generator the package was derived from.  Its state uses the   *)
(* same variables: puzzle.grid is self.grid, puzzle.placements is            *)
(* self.placed_words, counts is direction_counts, attempt is the attempts    *)
(* counter of generate_multiple_puzzles.                                     *)

\* MultiPuzzleWordSearchGenerator.DIRECTIONS
DIRECTIONS == horizontal \o vertical \o diagonal

\* the index groups of generate: horizontal = [0, 1], vertical = [2, 3],
\* diagonal = [4, 5, 6, 7] (0-based)
direction_groups == << <<0, 1>>, <<2, 3>>, <<4, 5, 6, 7>> >>

\* variant: the end cell is computed with len(word) instead of len(word) - 1
legacy_can_place_word_end_off_by_one(grid, size, word, row, col, row_delta, col_delta) ==
    LET end_row == row + row_delta * Len(word)
        end_col == col + col_delta * Len(word)
    IN  /\ 0 <= end_row /\ end_row < size /\ 0 <= end_col /\ end_col < size
        /\ \A k \in 1..Len(word) :
              LET cell == grid[row + (k - 1) * row_delta][col + (k - 1) * col_delta]
              IN  ~(cell # "" /\ cell # word[k])

\* MultiPuzzleWordSearchGenerator.can_place_word: the end cell is checked
\* against the bounds, then the cells are compared
legacy_can_place_word(grid, size, word, row, col, row_delta, col_delta) ==
    LET end_row == row + row_delta * (Len(word) - 1)
        end_col == col + col_delta * (Len(word) - 1)
    IN  /\ 0 <= end_row /\ end_row < size /\ 0 <= end_col /\ end_col < size
        /\ \A k \in 1..Len(word) :
              LET cell == grid[row + (k - 1) * row_delta][col + (k - 1) * col_delta]
              IN  ~(cell # "" /\ cell # word[k])

\* MultiPuzzleWordSearchGenerator.place_word, the grid after the writes
RECURSIVE legacy_write(_, _, _, _, _, _, _)
legacy_write(grid, word, row, col, row_delta, col_delta, k) ==
    IF k > Len(word) THEN grid
    ELSE legacy_write([grid EXCEPT ![row + (k - 1) * row_delta]
                                    [col + (k - 1) * col_delta] = word[k]],
                      word, row, col, row_delta, col_delta, k + 1)

\* MultiPuzzleWordSearchGenerator.place_word
legacy_place_word(pz, word, row, col, direction) ==
    [grid |-> legacy_write(pz.grid, word, row, col,
                           direction.row_delta, direction.col_delta, 1),
     placements |-> Append(pz.placements,
         [word |-> word, start |-> <<row, col>>, direction |-> direction.name,
          cells |-> [k \in 1..Len(word) |->
                        <<row + (k - 1) * direction.row_delta,
                          col + (k - 1) * direction.col_delta>>]])]

\* generate: the groups in priority order for word i
priority_groups(cnt, total_words, i) ==
    LET horizontal_group == direction_groups[1]
        vertical_group == direction_groups[2]
        diagonal_group == direction_groups[3]
        group_idx == i % Len(direction_groups)
    IN  IF cnt.DIAGONAL < total_words \div 3
        THEN <<diagonal_group, horizontal_group, vertical_group>>
        ELSE IF cnt.HORIZONTAL < total_words \div 3
             THEN <<horizontal_group, diagonal_group, vertical_group>>
             ELSE IF cnt.VERTICAL < total_words \div 3
                  THEN <<vertical_group, diagonal_group, horizontal_group>>
                  ELSE <<direction_groups[group_idx + 1]>> \o
                       SelectSeq(direction_groups,
                                 LAMBDA g : g # direction_groups[group_idx + 1])

\* MultiPuzzleWordSearchGenerator.try_place_word on one group: the pairs of
\* a direction of the group and a start cell the shuffled scan can commit
legacy_placeable(grid, size, word, group) ==
    {pair \in {DIRECTIONS[group[k] + 1] : k \in 1..Len(group)}
              \X ((0..(size - 1)) \X (0..(size - 1))) :
        legacy_can_place_word(grid, size, word, pair[2][1], pair[2][2],
                              pair[1].row_delta, pair[1].col_delta)}

\* the first group in priority order in which try_place_word succeeds
\* (0 if it fails in all of them)
first_group(grid, size, word, groups) ==
    IF \E g \in 1..Len(groups) : legacy_placeable(grid, size, word, groups[g]) # {}
    THEN CHOOSE g \in 1..Len(groups) :
            /\ legacy_placeable(grid, size, word, groups[g]) # {}
            /\ \A h \in 1..(g - 1) : legacy_placeable(grid, size, word, groups[h]) = {}
    ELSE 0

\* generate: the count bumped after a placement, by the words in its name
legacy_count(cnt, name) ==
    IF "horizontal" \in Range(name)
    THEN [cnt EXCEPT !.HORIZONTAL = @ + 1]
    ELSE IF "vertical" \in Range(name)
         THEN [cnt EXCEPT !.VERTICAL = @ + 1]
         ELSE [cnt EXCEPT !.DIAGONAL = @ + 1]

\* generate_multiple_puzzles: word_data maps each placed word to its cells
\* (a later placement of the same word replaces the earlier entry)
word_data(placed_words) ==
    [w \in {placed_words[k].word : k \in 1..Len(placed_words)} |->
        placed_words[CHOOSE k \in 1..Len(placed_words) :
                        /\ placed_words[k].word = w
                        /\ \A j \in (k + 1)..Len(placed_words) :
                              placed_words[j].word # w].cells]

LegacyRequests ==
    {GeneratePuzzleRequest("legacy", 5, <<hello>>, 1),
     GeneratePuzzleRequest("legacy", 5, <<CAT, DOG>>, 1),
     GeneratePuzzleRequest("legacy", 3, <<CAT, TAG, <<"A">> >>, 1),
     GeneratePuzzleRequest("legacy", 1, << <<"A">>, <<"B">> >>, 1)}
    \cup {GeneratePuzzleRequest("legacy", 1, << <<"a">>, <<"A">>, <<"A">> >>, n) :
             n \in 1..MaxCount}

\* after MultiPuzzleWordSearchGenerator(size, words), on entry to
\* generate_multiple_puzzles(count)
LegacyInit ==
    /\ request \in LegacyRequests
    /\ uc = "loop"
    /\ words = load_words(request)
    /\ puzzles = <<>>
    /\ attempt = 0
    /\ response = NoResponse
    /\ saved = FALSE
    /\ puzzle = NewPuzzle(request.grid_size)
    /\ gen = "idle"
    /\ attempts = 0
    /\ words_to_place = <<>>
    /\ word_index = 0
    /\ counts = NewCounts
    /\ result = "none"
    /\ exception = "none"
    /\ calls = 0
    /\ successes = 0
    /\ puzzle_id = 0
    /\ puzzle_ids = <<>>
    /\ presented = <<>>
    /\ balancer_total_words = 0
    /\ returned = NoReturn
    /\ parked = NoFrame

\* generate_multiple_puzzles: the while condition holds, attempts += 1,
\* generate() is called
LegacyStartIteration ==
    /\ uc = "loop"
    /\ Len(puzzles) < request.puzzle_count
    /\ attempt < request.puzzle_count * AttemptsPerPuzzle
    /\ attempt' = attempt + 1
    /\ gen' = "loop"
    /\ attempts' = 0
    /\ result' = "none"
    /\ calls' = calls + 1
    /\ uc' = "generating"
    /\ UNCHANGED <<request, words, puzzles, response, saved, puzzle,
                   words_to_place, word_index, counts, exception, successes,
                   puzzle_id, puzzle_ids, presented, balancer_total_words, returned,
                   parked>>

\* generate_multiple_puzzles after generate returned: on True a copy of
\* the grid and the word data are appended
LegacyCollect ==
    /\ uc = "generating"
    /\ gen = "returned"
    /\ puzzles' = IF result = "True"
                  THEN Append(puzzles, [grid |-> puzzle.grid,
                                        words |-> word_data(puzzle.placements)])
                  ELSE puzzles
    /\ puzzle_ids' = IF result = "True" THEN Append(puzzle_ids, calls)
                                        ELSE puzzle_ids
    /\ uc' = "loop"
    /\ gen' = "idle"
    /\ UNCHANGED <<request, words, attempt, response, saved, puzzle, attempts,
                   words_to_place, word_index, counts, result, exception,
                   calls, successes, puzzle_id, presented, balancer_total_words,
                   returned, parked>>

\* generate_multiple_puzzles: the while condition fails, the list is returned
LegacyFinish ==
    /\ uc = "loop"
    /\ ~(/\ Len(puzzles) < request.puzzle_count
         /\ attempt < request.puzzle_count * AttemptsPerPuzzle)
    /\ uc' = "done"
    /\ UNCHANGED <<request, words, puzzles, attempt, response, saved,
                   puzzle_ids, presented, returned, parked>>
    /\ UNCHANGED genVars

\* generate: an attempt begins with an empty grid, no placed words, a
\* shuffled copy of the sorted words and zero direction counts
LegacyAttemptStart ==
    /\ gen = "loop"
    /\ attempts < MaxAttempts
    /\ attempts' = attempts + 1
    /\ puzzle' = [grid |-> EmptyGrid(request.grid_size), placements |-> <<>>]
    /\ words_to_place' \in Shuffles(SortedWords(words))
    /\ counts' = NewCounts
    /\ word_index' = 0
    /\ gen' = "placing"
    /\ UNCHANGED <<result, exception, calls, successes>>
    /\ UNCHANGED <<puzzles, balancer_total_words>>
    /\ UNCHANGED callerVars

\* generate, word i: the first group in priority order that admits the word
\* places it, and the count of the placed direction is bumped
LegacyPlaceWord ==
    /\ gen = "placing"
    /\ word_index < Len(words_to_place)
    /\ LET word == words_to_place[word_index + 1]
           groups == priority_groups(counts, Len(words_to_place), word_index)
           g == first_group(puzzle.grid, request.grid_size, word, groups)
       IN  /\ g # 0
           /\ \E pair \in legacy_placeable(puzzle.grid, request.grid_size, word,
                                           groups[g]) :
                 LET placed == legacy_place_word(puzzle, word, pair[2][1],
                                                 pair[2][2], pair[1])
                 IN  /\ puzzle' = placed
                     /\ counts' = legacy_count(counts,
                            placed.placements[Len(placed.placements)].direction)
    /\ word_index' = word_index + 1
    /\ UNCHANGED <<gen, attempts, words_to_place, result, exception, calls, successes>>
    /\ UNCHANGED <<puzzles, balancer_total_words>>
    /\ UNCHANGED callerVars

\* generate, word i: no group admits the word, the attempt is over
LegacyPlaceWordFails ==
    /\ gen = "placing"
    /\ word_index < Len(words_to_place)
    /\ first_group(puzzle.grid, request.grid_size, words_to_place[word_index + 1],
                   priority_groups(counts, Len(words_to_place), word_index)) = 0
    /\ gen' = "loop"
    /\ UNCHANGED <<puzzle, attempts, words_to_place, word_index, counts, result,
                   exception, calls, successes>>
    /\ UNCHANGED <<puzzles, balancer_total_words>>
    /\ UNCHANGED callerVars

\* generate: all words placed and direction_counts['diagonal'] >= n * 0.2:
\* fill_empty_cells, return True
LegacyAttemptAccepted ==
    /\ gen = "placing"
    /\ word_index = Len(words_to_place)
    /\ counts.DIAGONAL * 10 >= Len(words_to_place) * 2
    /\ \E seed \in 0..MaxFillSeed :
         puzzle' = [puzzle EXCEPT
                      !.grid = FillFrom(@, request.grid_size, 0, 0, seed)]
    /\ result' = "True"
    /\ successes' = successes + 1
    /\ gen' = "returned"
    /\ UNCHANGED <<attempts, words_to_place, word_index, counts, exception, calls>>
    /\ UNCHANGED <<puzzles, balancer_total_words>>
    /\ UNCHANGED callerVars

\* generate: all words placed, too few diagonals: next attempt
LegacyAttemptRejected ==
    /\ gen = "placing"
    /\ word_index = Len(words_to_place)
    /\ ~(counts.DIAGONAL * 10 >= Len(words_to_place) * 2)
    /\ gen' = "loop"
    /\ UNCHANGED <<puzzle, attempts, words_to_place, word_index, counts, result,
                   exception, calls, successes>>
    /\ UNCHANGED <<puzzles, balancer_total_words>>
    /\ UNCHANGED callerVars

\* generate: max_attempts attempts made, return False
LegacyExhausted ==
    /\ gen = "loop"
    /\ attempts >= MaxAttempts
    /\ result' = "False"
    /\ gen' = "returned"
    /\ UNCHANGED <<puzzle, attempts, words_to_place, word_index, counts,
                   exception, calls, successes>>
    /\ UNCHANGED <<puzzles, balancer_total_words>>
    /\ UNCHANGED callerVars

LegacyNext ==
    \/ LegacyStartIteration
    \/ LegacyCollect
    \/ LegacyFinish
    \/ LegacyAttemptStart
    \/ LegacyPlaceWord
    \/ LegacyPlaceWordFails
    \/ LegacyAttemptAccepted
    \/ LegacyAttemptRejected
    \/ LegacyExhausted

SpecLegacy == LegacyInit /\ [][LegacyNext]_vars

----------------------------------------------------------------------------
(* Two iterations of _generate_puzzles run side by side.  Each iteration   *)
(* executes the loop body: it builds its Puzzle and calls generate on it.  *)
(* The steps of the two calls interleave in any order; the variables of    *)
(* the generator hold the frame of the iteration that is running, parked   *)
(* holds the frame of the other one.                                       *)

ParallelRequests ==
    {GeneratePuzzleRequest("parallel", 5, <<hello>>, 2),
     GeneratePuzzleRequest("parallel", 1, << <<"A">>, <<"B">> >>, 2),
     GeneratePuzzleRequest("parallel", 2, << <<"A", "B">> >>, 2),
     GeneratePuzzleRequest("legacy_parallel", 5, <<hello>>, 2),
     GeneratePuzzleRequest("legacy_parallel", 1, << <<"A">>, <<"B">> >>, 2),
     GeneratePuzzleRequest("legacy_parallel", 1,
                           << <<"a">>, <<"A">>, <<"A">> >>, 2)}

\* the locals of one iteration and of the generate call it makes
Frame(worker, pz, id) ==
    [worker |-> worker, puzzle |-> pz, puzzle_id |-> id, gen |-> "loop",
     attempts |-> 0, words_to_place |-> <<>>, word_index |-> 0,
     counts |-> NewCounts, balancer_total_words |-> 0, result |-> "none",
     exception |-> "none"]

\* both iterations enter the loop body: each constructs its own Puzzle
\* and is about to call generate on it
ParallelDispatch ==
    /\ uc = "idle"
    /\ request.entry = "parallel"
    /\ words' = load_words(request)
    /\ puzzle' = NewPuzzle(request.grid_size)
    /\ puzzle_id' = 1
    /\ parked' = Frame(2, NewPuzzle(request.grid_size), 2)
    /\ gen' = "loop"
    /\ attempts' = 0
    /\ result' = "none"
    /\ calls' = 2
    /\ uc' = "parallel"
    /\ UNCHANGED <<request, puzzles, attempt, response, saved, words_to_place,
                   word_index, counts, exception, successes, puzzle_ids,
                   presented, balancer_total_words, returned>>

\* both iterations of generate_multiple_puzzles enter the loop body: each
\* is about to call self.generate() on the one generator object, whose
\* attributes grid and placed_words are the puzzle state
LegacyParallelDispatch ==
    /\ uc = "idle"
    /\ request.entry = "legacy_parallel"
    /\ words' = load_words(request)
    /\ puzzle' = NewPuzzle(request.grid_size)
    /\ puzzle_id' = 0
    /\ parked' = Frame(2, NewPuzzle(request.grid_size), 0)
    /\ gen' = "loop"
    /\ attempts' = 0
    /\ result' = "none"
    /\ calls' = 2
    /\ uc' = "parallel"
    /\ UNCHANGED <<request, puzzles, attempt, response, saved, words_to_place,
                   word_index, counts, exception, successes, puzzle_ids,
                   presented, balancer_total_words, returned>>

\* the state of the Puzzle object the suspended iteration holds: the frame
\* keeps a reference, so if both iterations hold one object its state is
\* the one the running iteration sees
ParkedPuzzle == IF parked.puzzle_id = puzzle_id THEN puzzle ELSE parked.puzzle

\* the scheduler suspends the running iteration and resumes the other
Switch ==
    /\ uc = "parallel"
    /\ parked' = [worker |-> 3 - parked.worker, puzzle |-> puzzle,
                  puzzle_id |-> puzzle_id, gen |-> gen, attempts |-> attempts,
                  words_to_place |-> words_to_place, word_index |-> word_index,
                  counts |-> counts,
                  balancer_total_words |-> balancer_total_words,
                  result |-> result, exception |-> exception]
    /\ puzzle' = ParkedPuzzle
    /\ puzzle_id' = parked.puzzle_id
    /\ gen' = parked.gen
    /\ attempts' = parked.attempts
    /\ words_to_place' = parked.words_to_place
    /\ word_index' = parked.word_index
    /\ counts' = parked.counts
    /\ balancer_total_words' = parked.balancer_total_words
    /\ result' = parked.result
    /\ exception' = parked.exception
    /\ UNCHANGED <<request, uc, words, puzzles, attempt, response, saved, calls,
                   successes, puzzle_ids, presented, returned>>

\* both calls of generate have returned: each iteration appends its puzzle
\* if its call returned True
ParallelJoin ==
    /\ uc = "parallel"
    /\ request.entry = "parallel"
    /\ gen = "returned"
    /\ parked.gen = "returned"
    /\ LET mine == IF result = "True" THEN <<puzzle>> ELSE <<>>
           my_id == IF result = "True" THEN <<puzzle_id>> ELSE <<>>
           other == IF parked.result = "True" THEN <<ParkedPuzzle>> ELSE <<>>
           other_id == IF parked.result = "True" THEN <<parked.puzzle_id>> ELSE <<>>
       IN  /\ puzzles' = puzzles \o mine \o other
           /\ puzzle_ids' = puzzle_ids \o my_id \o other_id
    /\ uc' = "done"
    /\ UNCHANGED <<request, words, attempt, response, saved, presented,
                   returned, parked>>
    /\ UNCHANGED genVars

\* generate_multiple_puzzles, the running iteration after its generate
\* returned: on True a copy of self.grid and the word data of
\* self.placed_words, as they are at this moment, are appended
LegacyParallelCollect ==
    /\ uc = "parallel"
    /\ request.entry = "legacy_parallel"
    /\ gen = "returned"
    /\ puzzles' = IF result = "True"
                  THEN Append(puzzles, [grid |-> puzzle.grid,
                                        words |-> word_data(puzzle.placements)])
                  ELSE puzzles
    /\ puzzle_ids' = IF result = "True" THEN Append(puzzle_ids, Len(puzzles) + 1)
                                        ELSE puzzle_ids
    /\ gen' = "idle"
    /\ UNCHANGED <<request, uc, words, attempt, response, saved, puzzle, attempts,
                   words_to_place, word_index, counts, result, exception,
                   calls, successes, puzzle_id, presented, balancer_total_words,
                   returned, parked>>

NextParallel ==
    \/ ParallelDispatch
    \/ LegacyParallelDispatch
    \/ Switch
    \/ ParallelJoin
    \/ LegacyParallelCollect
    \/ request.entry = "parallel" /\ AttemptStart
    \/ request.entry = "parallel" /\ PlaceWord
    \/ request.entry = "parallel" /\ PlaceWordFails
    \/ request.entry = "parallel" /\ AttemptAccepted
    \/ request.entry = "parallel" /\ AttemptRejected
    \/ request.entry = "parallel" /\ Exhausted
    \/ request.entry = "legacy_parallel" /\ LegacyAttemptStart
    \/ request.entry = "legacy_parallel" /\ LegacyPlaceWord
    \/ request.entry = "legacy_parallel" /\ LegacyPlaceWordFails
    \/ request.entry = "legacy_parallel" /\ LegacyAttemptAccepted
    \/ request.entry = "legacy_parallel" /\ LegacyAttemptRejected
    \/ request.entry = "legacy_parallel" /\ LegacyExhausted

SpecParallel == InitWith(ParallelRequests) /\ [][NextParallel]_vars

----------------------------------------------------------------------------
(* Direct calls on a Puzzle and on a DirectionBalancer.  The methods are    *)
(* public: a Puzzle is built, placements are added the way try_place_word  *)
(* adds them, and can_place_word is asked about any word, start and         *)
(* direction; a DirectionBalancer is built for a number of words,           *)
(* incremented, and asked for the priority of any word index.               *)

\* Directions.all
all == <<HORIZONTAL_RIGHT, HORIZONTAL_LEFT, VERTICAL_DOWN, VERTICAL_UP,
         DIAGONAL_DOWN_RIGHT, DIAGONAL_DOWN_LEFT, DIAGONAL_UP_RIGHT,
         DIAGONAL_UP_LEFT>>

TACT == <<"T", "A", "C", "T">>

PuzzleRequests ==
    {GeneratePuzzleRequest("puzzle", 3, <<CAT, TAG, TACT>>, 1),
     GeneratePuzzleRequest("puzzle", 2, << <<"a", "b">>, <<"B">> >>, 1)}

\* the start positions asked about: the grid and one ring of cells around it
StartPositions(grid_size) ==
    {Position(r, c) : r \in (0 - 1)..grid_size, c \in (0 - 1)..grid_size}

\* Puzzle(grid_size=..., words=[Word(w) ...])
NewPuzzleCall ==
    /\ uc = "idle"
    /\ request.entry = "puzzle"
    /\ words' = load_words(request)
    /\ puzzle' = NewPuzzle(request.grid_size)
    /\ puzzle_id' = 1
    /\ uc' = "puzzle"
    /\ UNCHANGED <<request, puzzles, attempt, response, saved, gen, attempts,
                   words_to_place, word_index, counts, result, exception,
                   calls, successes, puzzle_ids, presented,
                   balancer_total_words, returned, parked>>

\* puzzle.add_placement(WordPlacement(word, position, direction)) for a
\* pair can_place_word accepts, as in try_place_word
DirectAddPlacement ==
    /\ uc = "puzzle"
    /\ Len(puzzle.placements) < MaxPlacements
    /\ \E k \in 1..Len(words) :
         \E pair \in PlaceablePairs(puzzle.grid, request.grid_size, words[k], all) :
            puzzle' = add_placement(puzzle, request.grid_size,
                                    WordPlacement(words[k], pair[2], pair[1]))
    /\ returned' = NoReturn
    /\ UNCHANGED <<request, uc, words, puzzles, attempt, response, saved, gen,
                   attempts, words_to_place, word_index, counts, result,
                   exception, calls, successes, puzzle_id, puzzle_ids,
                   presented, balancer_total_words, parked>>

\* puzzle.can_place_word(word, start, direction); the caller has taken the
\* result of the call before.  For a start inside the grid the record also
\* holds what can_place_word of the single-file generator answers about the
\* same grid, word, start and deltas.
DirectCanPlace ==
    /\ uc = "puzzle"
    /\ returned = NoReturn
    /\ \E k \in 1..Len(words), start \in StartPositions(request.grid_size),
          d \in 1..Len(all) :
         returned' =
            [method |-> "can_place_word", word |-> words[k], start |-> start,
             direction |-> all[d],
             result |-> can_place_word(puzzle.grid, request.grid_size,
                                       words[k], start, all[d]),
             examined |-> can_place_scan(puzzle.grid, request.grid_size,
                                         words[k], start, all[d], 0).examined,
             legacy |-> IF is_valid_position(request.grid_size, start)
                        THEN legacy_can_place_word(puzzle.grid,
                                request.grid_size, words[k], start.row,
                                start.col, all[d].row_delta, all[d].col_delta)
                        ELSE "not asked"]
    /\ UNCHANGED <<request, uc, words, puzzles, attempt, response, saved,
                   puzzle, gen, attempts, words_to_place, word_index, counts,
                   result, exception, calls, successes, puzzle_id, puzzle_ids,
                   presented, balancer_total_words, parked>>

NextPuzzle ==
    \/ NewPuzzleCall
    \/ DirectAddPlacement
    \/ DirectCanPlace

SpecPuzzle == InitWith(PuzzleRequests) /\ [][NextPuzzle]_vars

\* puzzle.add_placement(WordPlacement(word, start, direction)) for any word,
\* start and direction, whatever can_place_word says about them; raised
\* tells whether set_cell raised ValueError.  For a path inside the grid the
\* record also holds what place_word of the single-file generator leaves
\* when its grid is this grid and it has no placed words yet.
DirectAddAnyPlacement ==
    /\ uc = "puzzle"
    /\ returned = NoReturn
    /\ \E k \in 1..Len(words), start \in StartPositions(request.grid_size),
          d \in 1..Len(all) :
         LET placement == WordPlacement(words[k], start, all[d])
             inside == \A i \in 1..Len(placement.positions) :
                          is_valid_position(request.grid_size,
                                            placement.positions[i])
         IN  /\ puzzle' = add_placement(puzzle, request.grid_size, placement)
             /\ returned' =
                   [method |-> "add_placement", placement |-> placement,
                    before |-> puzzle,
                    raised |-> AddPlacementRaises(request.grid_size, placement),
                    place_word |->
                       IF inside
                       THEN legacy_place_word(
                               [grid |-> puzzle.grid, placements |-> <<>>],
                               words[k], start.row, start.col, all[d])
                       ELSE NoPuzzle]
    /\ UNCHANGED <<request, uc, words, puzzles, attempt, response, saved, gen,
                   attempts, words_to_place, word_index, counts, result,
                   exception, calls, successes, puzzle_id, puzzle_ids,
                   presented, balancer_total_words, parked>>

NextPlace ==
    \/ NewPuzzleCall
    \/ DirectAddPlacement
    \/ DirectAddAnyPlacement

SpecPlace == InitWith(PuzzleRequests) /\ [][NextPlace]_vars

\* DirectionBalancer(total_words) is to be built
BalancerRequest(n) == [entry |-> "balancer", total_words |-> n]

BalancerRequests == {BalancerRequest(n) : n \in 0..MaxTotalWords}

\* DirectionBalancer.__init__
NewBalancer ==
    /\ uc = "idle"
    /\ request.entry = "balancer"
    /\ counts' = NewCounts
    /\ balancer_total_words' = request.total_words
    /\ uc' = "balancer"
    /\ UNCHANGED <<request, words, puzzles, attempt, response, saved, puzzle,
                   gen, attempts, words_to_place, word_index, result,
                   exception, calls, successes, puzzle_id, puzzle_ids,
                   presented, returned, parked>>

\* balancer.increment(direction)
Increment ==
    /\ uc = "balancer"
    /\ \E d \in 1..Len(all) :
         /\ increment(counts, all[d]) \in
               [{"HORIZONTAL", "VERTICAL", "DIAGONAL"} -> 0..MaxBalancerCount]
         /\ counts' = increment(counts, all[d])
    /\ returned' = NoReturn
    /\ UNCHANGED <<request, uc, words, puzzles, attempt, response, saved,
                   puzzle, gen, attempts, words_to_place, word_index, result,
                   exception, calls, successes, puzzle_id, puzzle_ids,
                   presented, balancer_total_words, parked>>

\* balancer.get_priority_directions(word_index), the caller has taken the
\* result of the call before; next to the list the groups the single-file
\* generator computes inline from the same counts
GetPriorityDirections ==
    /\ uc = "balancer"
    /\ returned = NoReturn
    /\ \E i \in 0..MaxTotalWords :
         returned' =
            [method |-> "get_priority_directions", word_index |-> i,
             directions |-> get_priority_directions(counts,
                                                    balancer_total_words, i),
             priority_groups |-> priority_groups(counts, balancer_total_words, i)]
    /\ UNCHANGED <<request, uc, words, puzzles, attempt, response, saved,
                   puzzle, gen, attempts, words_to_place, word_index, counts,
                   result, exception, calls, successes, puzzle_id, puzzle_ids,
                   presented, balancer_total_words, parked>>

NextBalancer ==
    \/ NewBalancer
    \/ Increment
    \/ GetPriorityDirections

SpecBalancer == InitWith(BalancerRequests) /\ [][NextBalancer]_vars

----------------------------------------------------------------------------
(* Properties *)

\* generate has returned True on the current puzzle
Accepted == gen = "returned" /\ exception = "none" /\ result = "True"

\* the puzzles generate has accepted: the current one and the collected ones
AcceptedPuzzles == (IF Accepted THEN {puzzle} ELSE {}) \cup Range(puzzles)

\* the puzzles the program holds: the one being worked on and the collected
AllPuzzles == {puzzle} \cup Range(puzzles)

GridRows(pz) == DOMAIN pz.grid

Agree(p, q) ==
    \A i \in 1..Len(p.positions), j \in 1..Len(q.positions) :
        p.positions[i] = q.positions[j] => p.word[i] = q.word[j]

SharesCell(p, q) ==
    \E i \in 1..Len(p.positions), j \in 1..Len(q.positions) :
        p.positions[i] = q.positions[j]

\* C1: in every puzzle, at every moment of an attempt and after success, no
\* two recorded placements disagree on a cell they share: equal positions
\* carry equal characters.
C1_NoDisagreement ==
    \A pz \in AllPuzzles :
        \A a, b \in 1..Len(pz.placements) :
            Agree(pz.placements[a], pz.placements[b])

\* an accepted puzzle in which two placements of different words cross
C1_Witness ==
    /\ Accepted
    /\ \E a, b \in 1..Len(puzzle.placements) :
          /\ puzzle.placements[a].word # puzzle.placements[b].word
          /\ SharesCell(puzzle.placements[a], puzzle.placements[b])

WellFormed(pl, grid_size) ==
    /\ Len(pl.positions) = Len(pl.word)
    /\ pl.positions[1] = pl.start_position
    /\ \A k \in 1..Len(pl.positions) :
          /\ 0 <= pl.positions[k].row /\ pl.positions[k].row < grid_size
          /\ 0 <= pl.positions[k].col /\ pl.positions[k].col < grid_size
    /\ \A k \in 1..(Len(pl.positions) - 1) :
          /\ pl.positions[k + 1].row - pl.positions[k].row = pl.direction.row_delta
          /\ pl.positions[k + 1].col - pl.positions[k].col = pl.direction.col_delta

\* C2: every recorded placement has one position per character, starts at
\* its start position, stays inside the grid, and steps by the direction's
\* (row_delta, col_delta).
C2_PlacementGeometry ==
    \A pz \in AllPuzzles :
        \A a \in 1..Len(pz.placements) :
            WellFormed(pz.placements[a], request.grid_size)

\* a three-letter word recorded along the up-left diagonal, ending in a corner
C2_Witness ==
    \E a \in 1..Len(puzzle.placements) :
        /\ puzzle.placements[a].direction = DIAGONAL_UP_LEFT
        /\ Len(puzzle.placements[a].word) = 3
        /\ puzzle.placements[a].positions[3] = Position(0, 0)

\* C3: a puzzle returned by generate has exactly one placement per requested
\* word and no word in more than one placement.
C3_OnePlacementPerWord ==
    \A pz \in AcceptedPuzzles :
        /\ Len(pz.placements) = Len(words)
        /\ \A k \in 1..Len(words) :
              \E a \in 1..Len(pz.placements) : pz.placements[a].word = words[k]
        /\ \A a, b \in 1..Len(pz.placements) :
              a # b => pz.placements[a].word # pz.placements[b].word

\* the placements of a puzzle that run along a diagonal
DiagonalPlacements(pz) ==
    {a \in 1..Len(pz.placements) :
        /\ pz.placements[a].direction.row_delta # 0
        /\ pz.placements[a].direction.col_delta # 0}

\* C4: in every accepted puzzle with n requested words the number of
\* diagonal placements d satisfies 5 * d >= n.
C4_DiagonalCoverage ==
    \A pz \in AcceptedPuzzles :
        5 * Cardinality(DiagonalPlacements(pz)) >= Len(words)

\* six words accepted with exactly two of them on a diagonal
C4_Witness ==
    /\ Accepted
    /\ Len(words) = 6
    /\ Cardinality(DiagonalPlacements(puzzle)) = 2

\* reading the grid along the positions of a placement spells its word
Spells(pz, pl) ==
    \A k \in 1..Len(pl.positions) :
        pz.grid[pl.positions[k].row][pl.positions[k].col] = pl.word[k]

AllUppercase(pz) ==
    \A r \in GridRows(pz) : \A c \in DOMAIN pz.grid[r] :
        pz.grid[r][c] \in Range(ascii_uppercase)

\* C5: with grid_size 5 and the single five-letter word, generate returns
\* success with the word placed, on every run.
C5_SingleWordSucceeds ==
    (/\ request.grid_size = 5
     /\ request.words = <<hello>>
     /\ gen = "returned")
    => /\ result = "True"
       /\ \E a \in 1..Len(puzzle.placements) :
             /\ puzzle.placements[a].word = Word(hello)
             /\ Spells(puzzle, puzzle.placements[a])

\* C6: for the words CAT and DOG in a 5 x 5 grid, generate returns success,
\* each word is spelled along its recorded straight run, the runs agree where
\* they meet, and every cell holds an uppercase letter.
C6_CatDogSucceeds ==
    (/\ request.grid_size = 5
     /\ request.words = <<CAT, DOG>>
     /\ gen = "returned")
    => /\ result = "True"
       /\ \A w \in {CAT, DOG} :
             \E a \in 1..Len(puzzle.placements) :
                /\ puzzle.placements[a].word = w
                /\ WellFormed(puzzle.placements[a], 5)
                /\ Spells(puzzle, puzzle.placements[a])
       /\ \A a, b \in 1..Len(puzzle.placements) :
             Agree(puzzle.placements[a], puzzle.placements[b])
       /\ AllUppercase(puzzle)

Budget == request.puzzle_count * AttemptsPerPuzzle

\* C7: in a run of execute the generator is invoked at most count * 10
\* times and never again once count puzzles are collected; the list never
\* exceeds count, and between invocations its length is the number of
\* invocations that returned success.
C7_OrchestratorBudget ==
    /\ [](request.entry = "execute" =>
            /\ calls <= Budget
            /\ Len(puzzles) <= request.puzzle_count
            /\ (uc \in {"loop", "done"} => Len(puzzles) = successes))
    /\ [][(request.entry = "execute" /\ Len(puzzles) >= request.puzzle_count)
            => calls' = calls]_vars

\* two puzzles were requested and collected, after more than two invocations
C7_Witness ==
    /\ uc = "done"
    /\ request.puzzle_count = 2
    /\ Len(puzzles) = 2
    /\ calls > 2
    /\ successes = 2

\* C8: when the budget is exhausted with fewer puzzles than requested,
\* execute hands the caller the collected puzzles as a success response.
C8_UnderDelivery ==
    (/\ uc = "done"
     /\ calls = Budget
     /\ Len(puzzles) < request.puzzle_count)
    => /\ response.success = TRUE
       /\ response.puzzles = puzzles
       /\ response.puzzles_generated = Len(puzzles)

\* C9: after generate returned success no cell is empty; every cell holds
\* one uppercase letter.
C9_NoEmptyCellLeft ==
    \A pz \in AcceptedPuzzles :
        /\ GridRows(pz) = 0..(request.grid_size - 1)
        /\ \A r \in GridRows(pz) :
              /\ DOMAIN pz.grid[r] = 0..(request.grid_size - 1)
              /\ \A c \in DOMAIN pz.grid[r] :
                    /\ pz.grid[r][c] # ""
                    /\ pz.grid[r][c] \in Range(ascii_uppercase)

OnSomePlacement(pz, r, c) ==
    \E a \in 1..Len(pz.placements) :
        Position(r, c) \in Range(pz.placements[a].positions)

\* an accepted puzzle built from a lower-case word, with a cell off every
\* placement that the fill has written
C9_Witness ==
    /\ Accepted
    /\ request.words = <<hello>>
    /\ \E r \in GridRows(puzzle) : \E c \in DOMAIN puzzle.grid[r] :
          /\ ~OnSomePlacement(puzzle, r, c)
          /\ puzzle.grid[r][c] \in Range(ascii_uppercase)

\* C10: generate never raises: no exception leaves it, and when it has
\* returned its result is True or False.
C10_NeverRaises ==
    /\ exception = "none"
    /\ gen = "returned" => result \in {"True", "False"}

\* generate returned False for a word longer than the grid, every path of
\* which leaves the grid
C10_Witness ==
    /\ gen = "returned"
    /\ result = "False"
    /\ \E k \in 1..Len(words) : Len(words[k]) > request.grid_size

\* In the single-file generator a list of one or two words never yields a
\* puzzle: the round-robin puts the horizontal group first for word 0 and
\* the vertical group first for word 1, so no diagonal is ever placed.
LegacyFewWordsNeverSucceed ==
    (request.entry = "legacy" /\ Len(request.words) <= 2) => result # "True"

----------------------------------------------------------------------------
(* Puzzle.reset and the attempts of generate *)

AllEmpty(grid, grid_size) ==
    /\ DOMAIN grid = 0..(grid_size - 1)
    /\ \A r \in DOMAIN grid :
          /\ DOMAIN grid[r] = 0..(grid_size - 1)
          /\ \A c \in DOMAIN grid[r] : grid[r][c] = ""

\* C12: the step that begins an attempt (reset) leaves every cell empty and
\* the placement list empty together, whatever the puzzle held before; so an
\* attempt starts placing on an empty grid with no placements, and while it
\* places, every letter on the grid lies on a placement of this attempt and
\* there is one placement per word placed so far: nothing of an earlier
\* attempt is visible.
C12_ResetClearsAttempt ==
    /\ [][attempts' = attempts + 1 =>
             /\ AllEmpty(puzzle'.grid, request.grid_size)
             /\ puzzle'.placements = <<>>]_vars
    /\ [](gen = "placing" =>
             /\ Len(puzzle.placements) = word_index
             /\ word_index = 0 => AllEmpty(puzzle.grid, request.grid_size)
             /\ \A r \in GridRows(puzzle) : \A c \in DOMAIN puzzle.grid[r] :
                   puzzle.grid[r][c] # "" => OnSomePlacement(puzzle, r, c))

\* the second attempt of a call is about to place its first word on an empty
\* grid; the first attempt placed words before it failed or was rejected
C12_Witness ==
    /\ attempts = 2
    /\ gen = "placing"
    /\ word_index = 0
    /\ Len(words_to_place) >= 1
    /\ AllEmpty(puzzle.grid, request.grid_size)
    /\ puzzle.placements = <<>>

----------------------------------------------------------------------------
(* The result list of _generate_puzzles *)

\* C13: a puzzle that is in the result list stays in it with the same grid
\* and the same placement list through every later step, and the entries of
\* the list are different objects, none of them the object a running
\* generate works on: a write to one puzzle cannot show in another.
C13_CollectedPuzzlesFrozen ==
    /\ [][\A k \in 1..Len(puzzles) :
             /\ Len(puzzles') >= k
             /\ puzzles'[k] = puzzles[k]]_vars
    /\ [](/\ \A j, k \in 1..Len(puzzle_ids) : j # k => puzzle_ids[j] # puzzle_ids[k]
          /\ uc = "generating" => puzzle_id \notin Range(puzzle_ids))

\* a later iteration has placed a word on its own puzzle while the list
\* holds an accepted puzzle with a different grid
C13_Witness ==
    /\ request.entry = "execute"
    /\ Len(puzzles) = 1
    /\ uc = "generating"
    /\ gen = "placing"
    /\ Len(puzzle.placements) >= 1
    /\ puzzle.grid # puzzles[1].grid
    /\ puzzles[1].placements # <<>>

----------------------------------------------------------------------------
(* The exported puzzle data *)

Reverse(s) == [i \in 1..Len(s) |-> s[Len(s) + 1 - i]]

\* the characters of the grid at the listed [row, col] cells, in order
ReadCells(grid, cells) == [i \in 1..Len(cells) |-> grid[cells[i][1]][cells[i][2]]]

\* one exported puzzle: every word of the list ws has an entry, and the
\* cells of each entry spell its word forward and its reverse backward
ExportSpells(data, ws) ==
    /\ \A k \in 1..Len(ws) : ws[k] \in DOMAIN data.words
    /\ \A w \in DOMAIN data.words :
          /\ Len(data.words[w]) = Len(w)
          /\ \A i \in 1..Len(w) :
                /\ data.words[w][i][1] \in DOMAIN data.grid
                /\ data.words[w][i][2] \in DOMAIN data.grid[data.words[w][i][1]]
          /\ ReadCells(data.grid, data.words[w]) = w
          /\ ReadCells(data.grid, Reverse(data.words[w])) = Reverse(w)

\* C14: for every accepted puzzle the exported word -> cells mapping has an
\* entry for every requested word (as Word stores it), and the cells of an
\* entry read from the final grid in listed order spell the word, read
\* back-to-front its reverse; what present built for a saved run is that
\* export of the returned puzzles.
C14_ExportSpellsWords ==
    /\ \A pz \in AcceptedPuzzles :
          ExportSpells(convert_puzzles_to_data(<<pz>>)[1], words)
    /\ saved =>
          /\ Len(presented) = Len(puzzles)
          /\ \A k \in 1..Len(presented) : ExportSpells(presented[k], words)

\* an accepted puzzle where two different words cross; its export lists the
\* shared cell under both words
C14_Witness ==
    /\ Accepted
    /\ \E a, b \in 1..Len(puzzle.placements) :
          /\ puzzle.placements[a].word # puzzle.placements[b].word
          /\ SharesCell(puzzle.placements[a], puzzle.placements[b])
    /\ LET data == convert_puzzles_to_data(<<puzzle>>)[1]
       IN  \E v, w \in DOMAIN data.words :
              /\ v # w
              /\ Range(data.words[v]) \cap Range(data.words[w]) # {}

\* execute has saved the export of a puzzle built from a lower-case word
C14_SavedWitness ==
    /\ saved
    /\ Len(presented) >= 1
    /\ request.words = <<hello>>
    /\ Word(hello) \in DOMAIN presented[1].words

----------------------------------------------------------------------------
(* Interleaved iterations *)

\* what a sequential run guarantees of a puzzle generate accepted for the
\* word list ws: one placement per list entry, each inside the grid and
\* spelled by the grid, no two placements at odds, the diagonal share, and
\* a grid without empty cells
AcceptanceProperties(pz, ws, grid_size) ==
    /\ Len(pz.placements) = Len(ws)
    /\ \A a \in 1..Len(pz.placements) :
          /\ WellFormed(pz.placements[a], grid_size)
          /\ Spells(pz, pz.placements[a])
          /\ \A b \in 1..Len(pz.placements) :
                Agree(pz.placements[a], pz.placements[b])
    /\ 5 * Cardinality(DiagonalPlacements(pz)) >= Len(ws)
    /\ GridRows(pz) = 0..(grid_size - 1)
    /\ \A r \in GridRows(pz) :
          /\ DOMAIN pz.grid[r] = 0..(grid_size - 1)
          /\ \A c \in DOMAIN pz.grid[r] : pz.grid[r][c] \in Range(ascii_uppercase)

\* a step of the running iteration leaves the puzzle state of the suspended
\* iteration as it was
SuspendedUntouched ==
    (uc = "parallel" /\ uc' = "parallel" /\ parked'.worker = parked.worker)
        => ParkedPuzzle' = ParkedPuzzle

PackageIterationsIndependent ==
    /\ [][request.entry = "parallel" => SuspendedUntouched]_vars
    /\ []((uc = "parallel" /\ request.entry = "parallel") =>
             /\ puzzle_id # parked.puzzle_id
             /\ Accepted =>
                   AcceptanceProperties(puzzle, words, request.grid_size)
             /\ (parked.gen = "returned" /\ parked.result = "True") =>
                   AcceptanceProperties(ParkedPuzzle, words, request.grid_size))

\* two iterations of the package in the middle of an attempt, each with a
\* word on its own grid
PackageInterleaved ==
    /\ uc = "parallel"
    /\ request.entry = "parallel"
    /\ gen = "placing"
    /\ parked.gen = "placing"
    /\ Len(puzzle.placements) >= 1
    /\ Len(parked.puzzle.placements) >= 1
    /\ puzzle.grid # parked.puzzle.grid

\* the acceptance properties in sequential runs
SequentialAcceptance ==
    \A pz \in AcceptedPuzzles : AcceptanceProperties(pz, words, request.grid_size)

----------------------------------------------------------------------------
(* Validation in execute *)

\* what the two validators let through: the grid size in range, a nonempty
\* list, every word no longer than the grid size
ValidConfiguration(ws, grid_size) ==
    /\ MIN_GRID_SIZE <= grid_size /\ grid_size <= MAX_GRID_SIZE
    /\ Len(ws) > 0
    /\ \A k \in 1..Len(ws) : Len(ws[k]) <= grid_size

\* C16: in execute, generate is called only with a configuration both
\* validators accepted; when a validator rejects the loaded words or the
\* grid size, generate is never called, nothing is collected, presented or
\* saved, and the response execute returns has success = False, puzzles = []
\* and puzzles_generated = 0.
C16_ValidatedBeforeGeneration ==
    request.entry = "execute" =>
        /\ calls > 0 => ValidConfiguration(words, request.grid_size)
        /\ (/\ ~LoadWordsRaises(request)
            /\ ~ValidConfiguration(load_words(request), request.grid_size)) =>
              /\ calls = 0
              /\ gen = "idle"
              /\ puzzles = <<>>
              /\ presented = <<>>
              /\ ~saved
              /\ uc \in {"idle", "done"}
              /\ uc = "done" =>
                    /\ response.success = FALSE
                    /\ response.puzzles = <<>>
                    /\ response.puzzles_generated = 0

\* execute has answered a request whose word file holds no word
C16_Witness ==
    /\ request.entry = "execute"
    /\ request.word_file.given
    /\ load_words(request) = <<>>
    /\ uc = "done"
    /\ response.success = FALSE
    /\ calls = 0

\* execute has answered a request whose grid is larger than the maximum
C16_TooLargeWitness ==
    /\ request.entry = "execute"
    /\ request.grid_size > MAX_GRID_SIZE
    /\ uc = "done"
    /\ response.success = FALSE
    /\ calls = 0

----------------------------------------------------------------------------
(* Priority of the direction categories *)

\* the category of a direction, as DirectionBalancer.increment tells it
CategoryOf(d) ==
    IF is_horizontal(d) THEN "HORIZONTAL"
    ELSE IF is_vertical(d) THEN "VERTICAL" ELSE "DIAGONAL"

\* the directions of the categories that come before the category of d in
\* the priority list
RankedBefore(priority, d) ==
    LET first == CHOOSE k \in 1..Len(priority) :
                    /\ CategoryOf(priority[k]) = CategoryOf(d)
                    /\ \A j \in 1..(k - 1) : CategoryOf(priority[j]) # CategoryOf(d)
    IN  SubSeq(priority, 1, first - 1)

\* a step of the attempt that places the word at word_index
PlacesWord ==
    /\ gen = "placing"
    /\ word_index' = word_index + 1
    /\ Len(puzzle'.placements) = Len(puzzle.placements) + 1

\* C17: when the word at index i is placed in a direction of category C,
\* no direction of a category ranked before C in the priority list of
\* word i had a start cell where the word could be placed on the grid as
\* it was before the step.
C17_PriorityOrderedProbing ==
    [][PlacesWord =>
          LET word == words_to_place[word_index + 1]
              priority == get_priority_directions(counts, balancer_total_words,
                                                  word_index)
              placed == puzzle'.placements[Len(puzzle'.placements)]
          IN  PlaceablePairs(puzzle.grid, request.grid_size, word,
                             RankedBefore(priority, placed.direction)) = {}]_vars

\* the single-file generator tries the groups one after the other: the
\* word lands in the first group of priority_groups that admits it
LegacyPriorityOrderedProbing ==
    [][PlacesWord =>
          LET word == words_to_place[word_index + 1]
              groups == priority_groups(counts, Len(words_to_place), word_index)
              placed == puzzle'.placements[Len(puzzle'.placements)]
              g == CHOOSE h \in 1..Len(groups) :
                      \E k \in 1..Len(groups[h]) :
                          DIRECTIONS[groups[h][k] + 1].name = placed.direction
          IN  \A h \in 1..(g - 1) :
                 legacy_placeable(puzzle.grid, request.grid_size, word,
                                  groups[h]) = {}]_vars

\* a word placed by the single-file generator in its second-ranked group
LegacySecondGroup ==
    /\ request.entry = "legacy"
    /\ gen = "placing"
    /\ word_index = 2
    /\ Len(puzzle.placements) = 2
    /\ counts.DIAGONAL = 0

----------------------------------------------------------------------------
(* Puzzle.can_place_word *)

\* cell i of the path of word from start along direction is inside the grid
\* and is empty or holds word[i] (i counts from 0)
CellAdmits(grid, grid_size, word, start, direction, i) ==
    LET row == start.row + i * direction.row_delta
        col == start.col + i * direction.col_delta
    IN  /\ 0 <= row /\ row < grid_size
        /\ 0 <= col /\ col < grid_size
        /\ grid[row][col] \in {"", word[i + 1]}

\* the offending cells of the path
Offending(grid, grid_size, word, start, direction) ==
    {i \in 0..(Len(word) - 1) :
        ~CellAdmits(grid, grid_size, word, start, direction, i)}

Least(S) == CHOOSE i \in S : \A j \in S : i <= j

\* C18: can_place_word returns True exactly when every cell of the path is
\* inside the grid and is empty or holds the character of its index; when
\* a cell offends, the scan stops at the first such cell and returns False.
C18_CanPlaceExactly ==
    returned.method = "can_place_word" =>
        LET bad == Offending(puzzle.grid, request.grid_size, returned.word,
                             returned.start, returned.direction)
        IN  /\ returned.result = (bad = {})
            /\ returned.examined =
                  IF bad = {} THEN Len(returned.word) ELSE Least(bad) + 1

\* can_place_word returned True for a word that is not on the grid and whose
\* path crosses a letter already placed
C18_Witness ==
    /\ returned.method = "can_place_word"
    /\ returned.result = TRUE
    /\ Len(puzzle.placements) >= 1
    /\ \A a \in 1..Len(puzzle.placements) :
          puzzle.placements[a].word # returned.word
    /\ \E i \in 0..(Len(returned.word) - 1) :
          puzzle.grid[returned.start.row + i * returned.direction.row_delta]
                     [returned.start.col + i * returned.direction.col_delta] # ""

\* can_place_word returned False at a cell that holds another letter, after
\* cells that admitted the word
C18_ConflictWitness ==
    /\ returned.method = "can_place_word"
    /\ returned.result = FALSE
    /\ returned.examined > 1
    /\ is_valid_position(request.grid_size,
          Position(returned.start.row
                      + (returned.examined - 1) * returned.direction.row_delta,
                   returned.start.col
                      + (returned.examined - 1) * returned.direction.col_delta))

----------------------------------------------------------------------------
(* WordPlacementService.try_place_word *)

\* the (direction, start) pairs, start among the grid_size^2 cells of the
\* grid, whose path admits the word cell by cell
AdmittedPairs(grid, grid_size, word, candidates) ==
    {pair \in Range(candidates) \X
              {Position(r, c) : r \in 0..(grid_size - 1), c \in 0..(grid_size - 1)} :
        Offending(grid, grid_size, word, pair[2], pair[1]) = {}}

\* the grid after word was written from start along direction
Written(grid, word, start, direction) ==
    [r \in DOMAIN grid |-> [c \in DOMAIN grid[r] |->
        IF \E i \in 0..(Len(word) - 1) :
              /\ r = start.row + i * direction.row_delta
              /\ c = start.col + i * direction.col_delta
        THEN word[1 + CHOOSE i \in 0..(Len(word) - 1) :
                        /\ r = start.row + i * direction.row_delta
                        /\ c = start.col + i * direction.col_delta]
        ELSE grid[r][c]]]

\* C19: a call of try_place_word for the word at word_index returns False
\* exactly when no pair of a candidate direction and a grid cell admits the
\* word on the current grid, and then it leaves the puzzle as it was; when
\* it returns True it has appended exactly one placement, of this word, for
\* a pair that admitted the word on the grid before the call, and has
\* written that word along its path and nothing else.
C19_TryPlaceExactly ==
    [][(gen = "placing" /\ word_index < Len(words_to_place)) =>
          LET word == words_to_place[word_index + 1]
              candidates == get_priority_directions(counts, balancer_total_words,
                                                    word_index)
              n == Len(puzzle.placements)
          IN  IF gen' = "loop"
              THEN /\ AdmittedPairs(puzzle.grid, request.grid_size, word,
                                    candidates) = {}
                   /\ puzzle' = puzzle
              ELSE /\ exception' = "none"
                   /\ Len(puzzle'.placements) = n + 1
                   /\ SubSeq(puzzle'.placements, 1, n) = puzzle.placements
                   /\ LET placed == puzzle'.placements[n + 1]
                      IN  /\ placed.word = word
                          /\ placed.direction \in Range(candidates)
                          /\ is_valid_position(request.grid_size,
                                               placed.start_position)
                          /\ Offending(puzzle.grid, request.grid_size, word,
                                       placed.start_position,
                                       placed.direction) = {}
                          /\ puzzle'.grid = Written(puzzle.grid, word,
                                                    placed.start_position,
                                                    placed.direction)]_vars

\* try_place_word has returned False for the second word of an attempt: the
\* first word is on the grid and no candidate pair admits the second
C19_Witness ==
    /\ gen = "loop"
    /\ attempts >= 1
    /\ word_index = 1
    /\ word_index < Len(words_to_place)
    /\ Len(puzzle.placements) = 1
    /\ AdmittedPairs(puzzle.grid, request.grid_size, words_to_place[2],
                     get_priority_directions(counts, balancer_total_words, 1)) = {}

\* try_place_word has committed a second word across the first
C19_CommittedWitness ==
    /\ gen = "placing"
    /\ word_index = 2
    /\ Len(puzzle.placements) = 2
    /\ puzzle.placements[1].word # puzzle.placements[2].word
    /\ SharesCell(puzzle.placements[1], puzzle.placements[2])

----------------------------------------------------------------------------
(* DirectionBalancer.get_priority_directions *)

\* the categories of a list of directions in the order in which the list
\* moves from one category to the next
RECURSIVE CategoryRuns(_)
CategoryRuns(ds) ==
    IF ds = <<>> THEN <<>>
    ELSE LET rest == CategoryRuns(Tail(ds))
         IN  IF rest # <<>> /\ rest[1] = CategoryOf(Head(ds))
             THEN rest
             ELSE <<CategoryOf(Head(ds))>> \o rest

\* the category order for the counts cnt, total_words words and word_index
ExpectedOrder(cnt, total_words, index) ==
    LET target == total_words \div 3
        categories == <<"HORIZONTAL", "VERTICAL", "DIAGONAL">>
        lead == categories[(index % 3) + 1]
    IN  IF cnt.DIAGONAL < target THEN <<"DIAGONAL", "HORIZONTAL", "VERTICAL">>
        ELSE IF cnt.HORIZONTAL < target THEN <<"HORIZONTAL", "DIAGONAL", "VERTICAL">>
        ELSE IF cnt.VERTICAL < target THEN <<"VERTICAL", "DIAGONAL", "HORIZONTAL">>
        ELSE <<lead>> \o SelectSeq(categories, LAMBDA c : c # lead)

\* every direction of Directions.all occurs exactly once in the list
EachDirectionOnce(ds) ==
    /\ Len(ds) = Len(all)
    /\ \A d \in 1..Len(all) : Cardinality({k \in 1..Len(ds) : ds[k] = all[d]}) = 1

\* C20: with target = total_words div 3, get_priority_directions returns
\* the directions grouped by category in the order Diagonal, Horizontal,
\* Vertical if the diagonal count is below the target; else Horizontal,
\* Diagonal, Vertical if the horizontal count is; else Vertical, Diagonal,
\* Horizontal if the vertical count is; else the category at word_index mod
\* 3 of Horizontal, Vertical, Diagonal followed by the other two in that
\* order; the list holds each of the 8 directions exactly once.  The groups
\* the single-file generator computes follow the same order.
C20_PriorityOrder ==
    returned.method = "get_priority_directions" =>
        LET expected == ExpectedOrder(counts, balancer_total_words,
                                      returned.word_index)
            legacy == Flatten(returned.priority_groups)
        IN  /\ CategoryRuns(returned.directions) = expected
            /\ EachDirectionOnce(returned.directions)
            /\ CategoryRuns([k \in 1..Len(legacy) |-> DIRECTIONS[legacy[k] + 1]])
                  = expected
            /\ EachDirectionOnce([k \in 1..Len(legacy) |-> DIRECTIONS[legacy[k] + 1]])

\* the round-robin branch with a positive target and word_index mod 3 = 2:
\* the diagonal directions lead
C20_Witness ==
    /\ returned.method = "get_priority_directions"
    /\ balancer_total_words \div 3 >= 1
    /\ counts.DIAGONAL >= balancer_total_words \div 3
    /\ counts.HORIZONTAL >= balancer_total_words \div 3
    /\ counts.VERTICAL >= balancer_total_words \div 3
    /\ returned.word_index % 3 = 2
    /\ CategoryOf(returned.directions[1]) = "DIAGONAL"

\* the vertical category leads because only its count is below the target
C20_VerticalWitness ==
    /\ returned.method = "get_priority_directions"
    /\ counts.DIAGONAL >= balancer_total_words \div 3
    /\ counts.HORIZONTAL >= balancer_total_words \div 3
    /\ counts.VERTICAL < balancer_total_words \div 3
    /\ CategoryRuns(returned.directions) = <<"VERTICAL", "DIAGONAL", "HORIZONTAL">>

----------------------------------------------------------------------------
(* _attempt_placement: a word that cannot be placed ends the attempt *)

\* some direction of the eight and some cell of the grid admit the word
SomePathAdmits(grid, grid_size, word) ==
    \E d \in 1..Len(all) : \E r \in 0..(grid_size - 1), c \in 0..(grid_size - 1) :
        Offending(grid, grid_size, word, Position(r, c), all[d]) = {}

\* C21: when the word at index i of an attempt is admitted by no direction
\* and cell, the attempt ends with that step: exactly i placements exist,
\* the step writes nothing and moves to no later word; and from the end of
\* an attempt on, the puzzle and the word index stay as they are until the
\* next attempt resets the puzzle or generate returns False.
C21_FailFast ==
    /\ [][(/\ gen = "placing"
           /\ word_index < Len(words_to_place)
           /\ ~SomePathAdmits(puzzle.grid, request.grid_size,
                              words_to_place[word_index + 1])) =>
             /\ gen' = "loop"
             /\ Len(puzzle.placements) = word_index
             /\ puzzle' = puzzle
             /\ word_index' = word_index
             /\ counts' = counts
             /\ result' = result]_vars
    /\ [][(gen = "loop" /\ attempts >= 1) =>
             \/ /\ attempts' = attempts + 1
                /\ gen' = "placing"
                /\ word_index' = 0
                /\ AllEmpty(puzzle'.grid, request.grid_size)
                /\ puzzle'.placements = <<>>
             \/ /\ gen' = "returned"
                /\ result' = "False"
                /\ puzzle' = puzzle
                /\ word_index' = word_index]_vars

\* generate has returned False after its last attempt failed at a word that
\* was neither the first nor the last: the words placed before it are still
\* on the grid and the words after it were never tried
C21_Witness ==
    /\ gen = "returned"
    /\ result = "False"
    /\ word_index >= 1
    /\ word_index + 1 < Len(words_to_place)
    /\ Len(puzzle.placements) = word_index
    /\ ~SomePathAdmits(puzzle.grid, request.grid_size,
                       words_to_place[word_index + 1])
    /\ \E r \in GridRows(puzzle) : \E c \in DOMAIN puzzle.grid[r] :
          puzzle.grid[r][c] # ""

\* an attempt has failed at its second word of three and generate is back
\* in its loop: the third word is left
C21_WordsLeftWitness ==
    /\ gen = "loop"
    /\ attempts >= 1
    /\ word_index = 1
    /\ Len(words_to_place) = 3
    /\ Len(puzzle.placements) = 1
    /\ ~SomePathAdmits(puzzle.grid, request.grid_size, words_to_place[2])

----------------------------------------------------------------------------
(* PuzzleGenerationStrategy.generate: the loop over the attempts *)

\* the attempt that is placing has placed every word and passes the gate
AttemptPasses ==
    /\ word_index = Len(words_to_place)
    /\ counts.DIAGONAL * 10 >= Len(words_to_place) * 2

\* C22: a call of generate starts at most max_attempts attempts and always
\* returns, with True or with False.  It returns True in the step that ends
\* the first attempt that placed every word and passed the gate, and starts
\* no attempt after it; an attempt goes back to the loop only when it was
\* rejected; and it returns False only from the loop, after max_attempts
\* attempts, each of which was rejected.
C22_GenerateTerminates ==
    /\ [](attempts <= MaxAttempts)
    /\ [](gen = "returned" =>
             /\ exception = "none"
             /\ result \in {"True", "False"}
             /\ attempts >= 1
             /\ result = "True" <=> AttemptPasses
             /\ result = "False" => attempts = MaxAttempts)
    /\ [][(gen = "placing" /\ AttemptPasses) =>
             /\ gen' = "returned"
             /\ result' = "True"
             /\ attempts' = attempts]_vars
    /\ [][(gen = "placing" /\ gen' = "loop") => ~AttemptPasses]_vars
    /\ [][attempts' # attempts =>
             /\ gen = "loop"
             /\ result = "none"
             /\ attempts < MaxAttempts
             /\ attempts' = attempts + 1]_vars
    /\ [][(gen = "loop" /\ attempts = MaxAttempts) =>
             /\ gen' = "returned"
             /\ result' = "False"]_vars
    /\ [][result' # result =>
             \/ result' = "True" /\ gen = "placing" /\ AttemptPasses
             \/ result' = "False" /\ gen = "loop" /\ attempts = MaxAttempts]_vars
    /\ (uc = "direct") ~> (gen = "returned")

\* generate returned False after max_attempts attempts, the last of which
\* placed every word and was rejected by the gate
C22_Witness ==
    /\ uc = "direct"
    /\ gen = "returned"
    /\ result = "False"
    /\ attempts = MaxAttempts
    /\ word_index = Len(words_to_place)
    /\ ~AttemptPasses

\* generate returned True at its first attempt although more were allowed
C22_FirstAttemptWitness ==
    /\ uc = "direct"
    /\ gen = "returned"
    /\ result = "True"
    /\ attempts = 1
    /\ attempts < MaxAttempts

----------------------------------------------------------------------------
(* DirectionBalancer.increment and the placements of the attempt *)

\* the category of a direction by its deltas: right and left are horizontal,
\* down and up are vertical, the four with both deltas are diagonal
CategoryByDeltas(d) ==
    IF d.row_delta = 0 THEN "HORIZONTAL"
    ELSE IF d.col_delta = 0 THEN "VERTICAL" ELSE "DIAGONAL"

\* the placements of pz whose direction is of category cat
PlacementsIn(pz, cat) ==
    {k \in 1..Len(pz.placements) :
        CategoryByDeltas(pz.placements[k].direction) = cat}

\* the number of the three tests of increment that answer True for d
CategoryTestsTrue(d) ==
    Cardinality({t \in {"horizontal", "vertical", "diagonal"} :
                    \/ t = "horizontal" /\ is_horizontal(d)
                    \/ t = "vertical" /\ is_vertical(d)
                    \/ t = "diagonal" /\ is_diagonal(d)})

\* C23: from the start of an attempt on, the count of each category equals
\* the number of recorded placements whose direction is of that category
\* (horizontal: right, left; vertical: down, up; diagonal: the other four);
\* each of the 8 directions passes exactly one category test and increment
\* raises exactly the count of its category by one; so the counts sum to
\* the number of placements, and while the word at index i is tried the
\* placements are those of the words 0..i-1 and the balancer was built for
\* the words of this attempt.
C23_CountsMatchPlacements ==
    /\ \A k \in 1..Len(all) :
          /\ CategoryTestsTrue(all[k]) = 1
          /\ \A cat \in DOMAIN NewCounts :
                increment(NewCounts, all[k])[cat] =
                    IF cat = CategoryByDeltas(all[k]) THEN 1 ELSE 0
    /\ (gen \in {"placing", "loop", "returned"} /\ attempts >= 1) =>
          /\ \A cat \in DOMAIN NewCounts :
                counts[cat] = Cardinality(PlacementsIn(puzzle, cat))
          /\ counts.HORIZONTAL + counts.VERTICAL + counts.DIAGONAL
                = Len(puzzle.placements)
          /\ Len(puzzle.placements) = word_index
          /\ \A j \in 1..word_index :
                puzzle.placements[j].word = words_to_place[j]
          /\ balancer_total_words = Len(words_to_place)

\* the third word of an attempt is about to be tried; the two placed before
\* it are one vertical and one diagonal
C23_Witness ==
    /\ gen = "placing"
    /\ word_index = 2
    /\ word_index < Len(words_to_place)
    /\ counts = [HORIZONTAL |-> 0, VERTICAL |-> 1, DIAGONAL |-> 1]
    /\ Cardinality(PlacementsIn(puzzle, "VERTICAL")) = 1
    /\ Cardinality(PlacementsIn(puzzle, "DIAGONAL")) = 1

\* two words placed, horizontal and vertical, on the 5x5 grid
C23_TwoCategoriesWitness ==
    /\ gen = "placing"
    /\ request.grid_size = 5
    /\ word_index = 2
    /\ counts = [HORIZONTAL |-> 1, VERTICAL |-> 1, DIAGONAL |-> 0]
    /\ puzzle.placements[1].direction = VERTICAL_UP
    /\ puzzle.placements[2].direction = HORIZONTAL_LEFT

----------------------------------------------------------------------------
(* generate: the diagonal gate and the fill *)

\* every word of the attempt has a placement and a fifth of them or more
\* run along a diagonal
GatePassed(pz) ==
    /\ Len(pz.placements) = Len(words_to_place)
    /\ 5 * Cardinality(DiagonalPlacements(pz)) >= Len(words_to_place)

\* a step that writes a letter to the puzzle generate works on without
\* adding a placement: an empty cell is filled
FillStep ==
    /\ puzzle_id' = puzzle_id
    /\ puzzle'.placements = puzzle.placements
    /\ \E r \in GridRows(puzzle) : \E c \in DOMAIN puzzle.grid[r] :
          puzzle.grid[r][c] = "" /\ puzzle'.grid[r][c] # ""

\* C24: an attempt that placed every word but fails the gate is rejected:
\* the step leaves the puzzle unfilled and returns nothing, generate goes
\* back to its loop, and True is never the result for a puzzle that fails
\* the gate, nor is such a puzzle collected.  Empty cells are filled only
\* in the step that ends an attempt that placed every word and passed the
\* gate; that step returns True, so a call fills at most once, and after
\* the return the puzzle is not written again.
C24_RejectedNeverReturned ==
    /\ [][(/\ gen = "placing"
           /\ Len(puzzle.placements) = Len(words_to_place)
           /\ ~GatePassed(puzzle)) =>
             /\ gen' = "loop"
             /\ puzzle' = puzzle
             /\ result' = result
             /\ puzzles' = puzzles]_vars
    /\ [][FillStep =>
             /\ gen = "placing"
             /\ GatePassed(puzzle)
             /\ result = "none"
             /\ result' = "True"
             /\ gen' = "returned"
             /\ attempts' = attempts]_vars
    /\ [][(gen = "returned" /\ puzzle_id' = puzzle_id) => puzzle' = puzzle]_vars
    /\ [](gen \in {"placing", "loop"} => result = "none")
    /\ [](result = "True" => GatePassed(puzzle))
    /\ [](\A k \in 1..Len(puzzles) :
             5 * Cardinality(DiagonalPlacements(puzzles[k])) >= Len(words))

\* generate returned True at its second attempt with cells the fill wrote;
\* its word fits an empty grid, so the first attempt placed it and was
\* rejected by the gate
C24_Witness ==
    /\ Accepted
    /\ attempts = 2
    /\ Len(words) = 1
    /\ Len(words[1]) <= request.grid_size
    /\ \E r \in GridRows(puzzle) : \E c \in DOMAIN puzzle.grid[r] :
          /\ ~OnSomePlacement(puzzle, r, c)
          /\ puzzle.grid[r][c] # ""

\* generate returned False and the puzzle still holds the last attempt,
\* fully placed, rejected by the gate and not filled
C24_RejectedLastWitness ==
    /\ gen = "returned"
    /\ result = "False"
    /\ Len(puzzle.placements) = Len(words_to_place)
    /\ ~GatePassed(puzzle)
    /\ \E r \in GridRows(puzzle) : \E c \in DOMAIN puzzle.grid[r] :
          puzzle.grid[r][c] = ""

----------------------------------------------------------------------------
(* Puzzle.add_placement and place_word without a prior can_place_word *)

\* the indices (from 0) of the cells of a placement's path outside the grid
OutsideCells(placement, grid_size) ==
    {i \in 0..(Len(placement.word) - 1) :
        LET row == placement.start_position.row + i * placement.direction.row_delta
            col == placement.start_position.col + i * placement.direction.col_delta
        IN  ~(0 <= row /\ row < grid_size /\ 0 <= col /\ col < grid_size)}

\* the grid after the first n characters of the placement's word were
\* written along its path
WrittenPrefix(grid, placement, n) ==
    [r \in DOMAIN grid |-> [c \in DOMAIN grid[r] |->
        LET hits == {i \in 0..(n - 1) :
                        /\ r = placement.start_position.row
                                 + i * placement.direction.row_delta
                        /\ c = placement.start_position.col
                                 + i * placement.direction.col_delta}
        IN  IF hits = {} THEN grid[r][c]
            ELSE placement.word[1 + CHOOSE i \in hits : \A j \in hits : j <= i]]]

\* C25 as stated: add_placement never checks and never raises: whatever the
\* placement, also when its path leaves the grid or crosses another letter,
\* every character is written along the path and the placement is appended.
C25_PlaceNeverValidates ==
    returned.method = "add_placement" =>
        /\ ~returned.raised
        /\ puzzle.placements = Append(returned.before.placements,
                                      returned.placement)
        /\ \A i \in 1..Len(returned.placement.positions) :
              LET position == returned.placement.positions[i]
              IN  /\ position.row \in DOMAIN puzzle.grid
                  /\ position.col \in DOMAIN puzzle.grid[position.row]

\* C25 amended: add_placement does not look at the letters on the grid and
\* never asks can_place_word: for a path inside the grid, also one that
\* crosses a different letter, it writes every character along the path,
\* appends the placement and does not raise, and so does place_word of the
\* single-file generator.  The bounds are checked by set_cell: for a path
\* that leaves the grid add_placement raises ValueError at the first cell
\* outside, after writing the cells before it, and appends nothing.
C25_PlaceChecksBoundsOnly ==
    returned.method = "add_placement" =>
        LET placement == returned.placement
            before == returned.before
            outside == OutsideCells(placement, request.grid_size)
        IN  IF outside = {}
            THEN /\ ~returned.raised
                 /\ puzzle.placements = Append(before.placements, placement)
                 /\ puzzle.grid = WrittenPrefix(before.grid, placement,
                                                Len(placement.word))
                 /\ returned.place_word.grid = puzzle.grid
                 /\ Len(returned.place_word.placements) = 1
                 /\ returned.place_word.placements[1].word = placement.word
                 /\ returned.place_word.placements[1].cells =
                       [i \in 1..Len(placement.word) |->
                           <<placement.positions[i].row,
                             placement.positions[i].col>>]
            ELSE /\ returned.raised
                 /\ puzzle.placements = before.placements
                 /\ puzzle.grid = WrittenPrefix(before.grid, placement,
                                                Least(outside))

\* add_placement was called for a path inside the grid that crosses a
\* different letter: can_place_word rejects it, the letter was overwritten
\* and the placement appended
C25_Witness ==
    /\ returned.method = "add_placement"
    /\ ~returned.raised
    /\ OutsideCells(returned.placement, request.grid_size) = {}
    /\ Offending(returned.before.grid, request.grid_size,
                 returned.placement.word, returned.placement.start_position,
                 returned.placement.direction) # {}
    /\ Len(puzzle.placements) = 2
    /\ \E r \in GridRows(puzzle) : \E c \in DOMAIN puzzle.grid[r] :
          /\ returned.before.grid[r][c] # ""
          /\ puzzle.grid[r][c] # returned.before.grid[r][c]

\* add_placement raised after it had written cells: the path starts inside
\* the grid and leaves it
C25_RaisedWitness ==
    /\ returned.method = "add_placement"
    /\ returned.raised
    /\ puzzle.grid # returned.before.grid
    /\ puzzle.placements = returned.before.placements

----------------------------------------------------------------------------
(* fill_empty_cells *)

\* the step in which generate fills the grid and returns True
Fills == gen = "placing" /\ result' = "True"

\* a fill writes only empty cells and leaves the placement list alone
FillKeepsLetters ==
    [][Fills =>
          /\ puzzle'.placements = puzzle.placements
          /\ DOMAIN puzzle'.grid = DOMAIN puzzle.grid
          /\ \A r \in GridRows(puzzle) :
                /\ DOMAIN puzzle'.grid[r] = DOMAIN puzzle.grid[r]
                /\ \A c \in DOMAIN puzzle.grid[r] :
                      puzzle.grid[r][c] # "" =>
                          puzzle'.grid[r][c] = puzzle.grid[r][c]]_vars

\* C26: fill_empty_cells writes only cells that are empty: a cell that held
\* a letter before the fill holds the same letter after it and the list of
\* placements is the same; so every placement that spelled its word along
\* its path before the fill spells it after the fill.
C26_FillKeepsPlacedWords ==
    /\ FillKeepsLetters
    /\ [][Fills =>
             \A a \in 1..Len(puzzle.placements) :
                /\ Spells(puzzle, puzzle.placements[a])
                /\ Spells(puzzle', puzzle'.placements[a])]_vars

\* the fill has run on a grid with two placements that cross, and has
\* written a cell next to them
C26_Witness ==
    /\ Accepted
    /\ Len(puzzle.placements) = 2
    /\ SharesCell(puzzle.placements[1], puzzle.placements[2])
    /\ \A a \in 1..2 : Spells(puzzle, puzzle.placements[a])
    /\ \E r \in GridRows(puzzle) : \E c \in DOMAIN puzzle.grid[r] :
          /\ ~OnSomePlacement(puzzle, r, c)
          /\ puzzle.grid[r][c] # ""

----------------------------------------------------------------------------
(* The letters on the grid and the recorded placements *)

\* a cell holds a letter exactly if it lies on the path of a recorded
\* placement, and then it holds the character some placement has there
CellsMatchPlacements(pz) ==
    \A r \in GridRows(pz) : \A c \in DOMAIN pz.grid[r] :
        /\ pz.grid[r][c] # "" <=> OnSomePlacement(pz, r, c)
        /\ pz.grid[r][c] # "" =>
              \E a \in 1..Len(pz.placements) :
                 \E i \in 1..Len(pz.placements[a].positions) :
                    /\ pz.placements[a].positions[i] = Position(r, c)
                    /\ pz.placements[a].word[i] = pz.grid[r][c]

\* C27: as long as generate has not filled the puzzle (it has not returned
\* True), in every state of every attempt a cell is non-empty exactly if
\* it lies on the path of a recorded placement; a try_place_word that
\* fails changes neither the grid nor the placements; and when generate
\* has returned False no cell holds a letter outside the recorded
\* placements.
C27_LettersOnlyOnPlacements ==
    /\ [](result # "True" => CellsMatchPlacements(puzzle))
    /\ []((gen = "returned" /\ result = "False") =>
             \A r \in GridRows(puzzle) : \A c \in DOMAIN puzzle.grid[r] :
                puzzle.grid[r][c] # "" => OnSomePlacement(puzzle, r, c))
    /\ [][(/\ gen = "placing"
           /\ word_index < Len(words_to_place)
           /\ word_index' = word_index) =>
             /\ puzzle'.grid = puzzle.grid
             /\ puzzle'.placements = puzzle.placements]_vars

\* generate returned False; the last attempt left two different words that
\* cross on the grid, and cells that are still empty
C27_Witness ==
    /\ gen = "returned"
    /\ result = "False"
    /\ Len(puzzle.placements) = 2
    /\ puzzle.placements[1].word # puzzle.placements[2].word
    /\ SharesCell(puzzle.placements[1], puzzle.placements[2])
    /\ \E r \in GridRows(puzzle) : \E c \in DOMAIN puzzle.grid[r] :
          puzzle.grid[r][c] = ""

\* a try_place_word has failed on a grid that holds a placement
C27_FailedTryWitness ==
    /\ gen = "loop"
    /\ attempts >= 1
    /\ Len(puzzle.placements) >= 1
    /\ Len(puzzle.placements) < Len(words_to_place)
    /\ CellsMatchPlacements(puzzle)

----------------------------------------------------------------------------
(* _attempt_placement: puzzle.placements[-1] after try_place_word *)

\* C28: during an attempt, after k successful calls of try_place_word the
\* puzzle has exactly k placements and placement j is of the j-th word of
\* the attempt's shuffled order; the step that places word k appends one
\* placement to the earlier ones, the last element of the list is then the
\* placement of that word, lying on the grid along its direction, and the
\* balancer's count of the category of that direction, and no other, goes
\* up by one.
C28_LastPlacementIsCurrentWord ==
    /\ []((gen = "placing" /\ attempts >= 1) =>
             /\ Len(puzzle.placements) = word_index
             /\ \A j \in 1..word_index :
                   puzzle.placements[j].word = words_to_place[j])
    /\ [][(gen = "placing" /\ word_index' = word_index + 1) =>
             LET k == word_index
                 last == puzzle'.placements[Len(puzzle'.placements)]
             IN  /\ Len(puzzle'.placements) = k + 1
                 /\ SubSeq(puzzle'.placements, 1, k) = puzzle.placements
                 /\ last.word = words_to_place[k + 1]
                 /\ last.positions =
                       [i \in 1..Len(last.word) |->
                          Position(last.start_position.row
                                      + (i - 1) * last.direction.row_delta,
                                   last.start_position.col
                                      + (i - 1) * last.direction.col_delta)]
                 /\ Spells(puzzle', last)
                 /\ counts' = [counts EXCEPT
                                 ![CategoryByDeltas(last.direction)] = @ + 1]]_vars

\* the second word of an attempt has just been placed along a diagonal
\* after a different word was placed horizontally
C28_Witness ==
    /\ gen = "placing"
    /\ word_index = 2
    /\ Len(puzzle.placements) = 2
    /\ puzzle.placements[1].word # puzzle.placements[2].word
    /\ puzzle.placements[2].word = words_to_place[2]
    /\ CategoryByDeltas(puzzle.placements[1].direction) = "HORIZONTAL"
    /\ CategoryByDeltas(puzzle.placements[2].direction) = "DIAGONAL"
    /\ counts = [HORIZONTAL |-> 1, VERTICAL |-> 0, DIAGONAL |-> 1]

----------------------------------------------------------------------------
(* The balancer's target and the threshold of the gate *)

\* ceil(0.2 * n)
GateThreshold(n) == (n + 4) \div 5

\* C29: for a balancer of n words the gate passes exactly when the diagonal
\* count is at least ceil(0.2 * n).  For n >= 3 the target n div 3 is at
\* least that threshold, so a diagonal count that has reached the target
\* passes the gate.  For n = 1 and n = 2 the target is 0, no count is below
\* it, so the priority list for a word index below n is the round-robin
\* one and starts with a horizontal or a vertical direction, in the package
\* and in the single-file generator, while the gate still asks for at
\* least one diagonal placement.
C29_TargetCoversGate ==
    uc = "balancer" =>
        LET n == balancer_total_words
            target == n \div 3
        IN  /\ has_sufficient_diagonal_coverage(counts, n)
                  <=> counts.DIAGONAL >= GateThreshold(n)
            /\ n >= 3 =>
                  /\ target >= GateThreshold(n)
                  /\ counts.DIAGONAL >= target =>
                        has_sufficient_diagonal_coverage(counts, n)
            /\ n \in {1, 2} =>
                  /\ target = 0
                  /\ GateThreshold(n) = 1
                  /\ has_sufficient_diagonal_coverage(counts, n)
                        <=> counts.DIAGONAL >= 1
                  /\ (/\ returned.method = "get_priority_directions"
                      /\ returned.word_index < n) =>
                        /\ ~is_diagonal(returned.directions[1])
                        /\ returned.directions =
                              IF returned.word_index = 0
                              THEN horizontal \o vertical \o diagonal
                              ELSE vertical \o horizontal \o diagonal
                        /\ returned.priority_groups[1] # direction_groups[3]

\* eleven words, three of them on a diagonal: the count has just reached
\* the target, which equals the threshold of the gate
C29_Witness ==
    /\ uc = "balancer"
    /\ balancer_total_words = 11
    /\ counts.DIAGONAL = 3
    /\ balancer_total_words \div 3 = GateThreshold(balancer_total_words)
    /\ has_sufficient_diagonal_coverage(counts, balancer_total_words)

\* two words, none on a diagonal: the priority list for the second word
\* starts with a vertical direction and the gate fails
C29_TwoWordsWitness ==
    /\ uc = "balancer"
    /\ balancer_total_words = 2
    /\ counts = [HORIZONTAL |-> 1, VERTICAL |-> 0, DIAGONAL |-> 0]
    /\ returned.method = "get_priority_directions"
    /\ returned.word_index = 1
    /\ is_vertical(returned.directions[1])
    /\ ~has_sufficient_diagonal_coverage(counts, balancer_total_words)

----------------------------------------------------------------------------
(* The two can_place_word implementations *)

\* the last cell of the path of the call that returned
EndCell ==
    Position(returned.start.row
                + (Len(returned.word) - 1) * returned.direction.row_delta,
             returned.start.col
                + (Len(returned.word) - 1) * returned.direction.col_delta)

\* C30: for every grid, every word of the puzzle, each of the 8 directions
\* and every start cell inside the grid, can_place_word of the single-file
\* generator, which tests only the end cell against the bounds before it
\* compares letters, answers what Puzzle.can_place_word answers, which
\* tests every cell.
C30_CanPlaceAgree ==
    (/\ returned.method = "can_place_word"
     /\ is_valid_position(request.grid_size, returned.start)) =>
        /\ returned.legacy \in BOOLEAN
        /\ returned.legacy = returned.result

\* both answered False for a start inside the grid whose path leaves the
\* grid: the package stopped at the first cell outside after cells that
\* admitted the word, the single-file generator at the end cell
C30_Witness ==
    /\ returned.method = "can_place_word"
    /\ is_valid_position(request.grid_size, returned.start)
    /\ ~is_valid_position(request.grid_size, EndCell)
    /\ returned.examined > 1
    /\ returned.examined < Len(returned.word)
    /\ returned.result = FALSE
    /\ returned.legacy = FALSE

\* both answered False for a path inside the grid that meets another letter
C30_ConflictWitness ==
    /\ returned.method = "can_place_word"
    /\ is_valid_position(request.grid_size, returned.start)
    /\ is_valid_position(request.grid_size, EndCell)
    /\ returned.result = FALSE
    /\ returned.legacy = FALSE

\* both answered True for a path that crosses a letter already on the grid
C30_CrossingWitness ==
    /\ returned.method = "can_place_word"
    /\ returned.result = TRUE
    /\ returned.legacy = TRUE
    /\ Len(puzzle.placements) = 1
    /\ puzzle.placements[1].word # returned.word
    /\ \E i \in 0..(Len(returned.word) - 1) :
          puzzle.grid[returned.start.row + i * returned.direction.row_delta]
                     [returned.start.col + i * returned.direction.col_delta] # ""

====
